---- MODULE Spec2Model ----
(***************************************************************************)
(* The transaction processing core of the wallet service:                  *)
(*   backend/services/transactionService.js  processTransaction            *)
(*   backend/services/idempotencyService.js  checkIdempotency,             *)
(*       markIdempotencyDone, TransactionDAO, IdempotencyDAO, WalletDAO    *)
(*   backend/services/walletService.js       setupWallet                   *)
(*                                                                         *)
(* Every await of a store call is one step: the store applies the call     *)
(* atomically, and other invocations may run between two calls.  Amounts   *)
(* and balances are exact decimals with at most four fractional digits     *)
(* (validationRules.js); the model counts them in whole units, on which    *)
(* Big.plus and toDecimal are exact.                                       *)
(***************************************************************************)
EXTENDS Integers, Sequences, FiniteSets, TLC

\* ------------------------------------------------------------------ bounds
MaxProcs == 3        \* processTransaction invocations (concurrent or sequential)
MaxWallets == 1      \* wallets setupWallet may create
MaxFailures == 1     \* store calls that fail (SpecWithFailures)
MaxRecords == 5      \* Transaction records of the listed wallet (SpecPagination)
MaxTime == 5         \* distinct createdAt instants (SpecPagination)
MaxLimit == 2        \* the limit a client requests (SpecPagination)

Procs == 1..MaxProcs
WalletIds == 1..MaxWallets
\* a well-formed wallet id for which no wallet is ever created
MissingWalletId == MaxWallets + 1

\* request inputs
Amounts == {-50, 50}
\* the amount of a request that names no wallet is parsed and never used
\* (walletDAO.findById throws before validateBalance): one value stands for all
AmountsFor(w) == IF w \in WalletIds THEN Amounts ELSE {50}
InitialBalances == {0, 10}
Keys == {"k1"}
NoKey == "none"
NoResult == [id |-> 0]

VARIABLES
    useTransactions,  \* db.js supportsTransactions: replica set or mongos
    wallets,          \* Wallet collection: id -> [balance, updatedAt]
    transactions,     \* Transaction collection, in insertion order
    idempotency,      \* Idempotency collection: key -> [status, result]
    pc,               \* where each processTransaction invocation stands
    req,              \* its arguments [walletId, amount, idempotencyKey]
    loaded,           \* the wallet document read by walletDAO.findById
    returnedBefore,   \* history: the invocations that had returned when it arrived
    wrote,            \* history: the invocations whose balance write is stored
    raced,            \* history: the invocations that stood between their load
                      \*          and their swap when it loaded the same wallet
    overtaken,        \* history: the invocations whose write of the wallet its
                      \*          load did not see and its swap did not precede
    outcome,          \* how the invocation ended
    result,           \* the value it returned
    setup,            \* setupWallet invocations: id -> [pc, initialBalance]
    listing,          \* a client paging through getTransactions
    failed,           \* history: the invocations a store call of which failed
    exported,         \* a call of exportTransactionsCSV and its CSV
    limiter,          \* the rate limiter: its clock, requestCounts, and the
                      \* history of the requests it handled
    normalizing,      \* a call of normalizeLimit and the value it returned
    fetching          \* a call of the client's fetchWithRetry: the retries
                      \* left, and the history of its attempts

vars == <<useTransactions, wallets, transactions, idempotency, pc, req, loaded,
          returnedBefore, wrote, raced, overtaken, outcome, result, setup,
          listing, failed, exported, limiter, normalizing, fetching>>

\* ----------------------------------------------------------- pure helpers
\* mutant: the amount is subtracted instead of added
NewBalanceSubtracts(balance, amount) == balance - amount

\* validateBalance: newBalance = currentBalance.plus(amountDecimal)
NewBalance(balance, amount) == balance + amount

\* mutant: the current balance is tested instead of the new one
InsufficientBalanceTestsCurrent(balance, amount) == balance < 0

\* mutant: validateBalance never throws
InsufficientBalanceNever(balance, amount) == FALSE

\* mutant: a new balance of zero is rejected as well
InsufficientBalanceOrZero(balance, amount) == NewBalance(balance, amount) <= 0

\* validateBalance: newBalance.lt(0) throws InsufficientBalanceError
InsufficientBalance(balance, amount) == NewBalance(balance, amount) < 0

\* processTransaction: amountValue > 0 ? 'CREDIT' : 'DEBIT'
TransactionType(amount) == IF amount > 0 THEN "CREDIT" ELSE "DEBIT"

\* mutant: the record is created without the amount
TransactionDocWithoutAmount(p) ==
    [id |-> p, walletId |-> req[p].walletId, amount |-> 0,
     balance |-> loaded[p].balance, type |-> "CREDIT"]

\* mutant: the record keeps the balance that was loaded, not the new one
TransactionDocWithLoadedBalance(p) ==
    [id |-> p, walletId |-> req[p].walletId, amount |-> req[p].amount,
     balance |-> loaded[p].balance, type |-> TransactionType(req[p].amount)]

\* the document processTransaction hands to transactionDAO.create; its _id is
\* generated by the creating invocation
TransactionDoc(p) ==
    [id |-> p,
     walletId |-> req[p].walletId,
     amount |-> req[p].amount,
     balance |-> NewBalance(loaded[p].balance, req[p].amount),
     type |-> TransactionType(req[p].amount)]

\* setupWallet's initial transaction: amount and balance are the initial balance
InitialTransactionDoc(w) ==
    [id |-> MaxProcs + w,
     walletId |-> w,
     amount |-> setup[w].initialBalance,
     balance |-> setup[w].initialBalance,
     type |-> "CREDIT"]

\* mutant: the key index is not unique, every insert succeeds
KeyIsAlwaysFree(key) == TRUE

\* Idempotency.create under the unique index on key: the insert succeeds only
\* when no record holds the key
KeyIsFree(key) == key \notin DOMAIN idempotency

\* mutant: the status of the record found is never read as done
RecordIsNeverDone(key) == FALSE

\* mutant: every record found is read as done
RecordIsAlwaysDone(key) == key \in DOMAIN idempotency

\* checkIdempotency: existingRecord?.status === 'done'
RecordIsDone(key) == key \in DOMAIN idempotency /\ idempotency[key].status = "done"

\* mutant: the filter names the wallet only, the balance is not compared
BalanceMatchesAnyBalance(w, currentBalance) == w \in DOMAIN wallets

\* WalletDAO.updateBalance: the filter { _id: walletId, balance: currentBalance }
BalanceMatches(w, currentBalance) ==
    w \in DOMAIN wallets /\ wallets[w].balance = currentBalance

\* mutant: an uncommitted write of any wallet blocks the write of every wallet
WriteLockedAnywhere(w) ==
    useTransactions /\ \E q \in Procs : pc[q] \in {"create", "mark", "commit"}

\* an open session transaction holds an uncommitted write of this wallet
WriteLocked(w) ==
    useTransactions /\ \E q \in Procs :
        pc[q] \in {"create", "mark", "commit"} /\ req[q].walletId = w

\* the wallet document was written after this invocation read it (timestamps:
\* true stamps updatedAt on every update; the model counts the updates)
WrittenSinceRead(p) ==
    wallets[req[p].walletId].updatedAt # loaded[p].updatedAt

\* findOneAndUpdate's $set of the balance, with the new updatedAt stamp
WithBalance(doc, newBalance) ==
    [balance |-> newBalance, updatedAt |-> doc.updatedAt + 1]

\* the wallet variable of an invocation before walletDAO.findById has returned
NotLoaded == [balance |-> 0, updatedAt |-> -1]

NewWallet(initialBalance) == [balance |-> initialBalance, updatedAt |-> 0]

\* the invocations against wallet w that have loaded it and not yet swapped
AboutToSwap(w) == {q \in Procs : pc[q] = "cas" /\ req[q].walletId = w}

\* the invocations whose session transaction holds an uncommitted write of w
HoldingWrite(w) ==
    {q \in Procs : /\ useTransactions
                   /\ pc[q] \in {"create", "mark", "commit"}
                   /\ req[q].walletId = w}

\* p writes its wallet: the invocations about to swap on it are overtaken
Overtaking(p) ==
    [q \in Procs |-> IF q # p /\ q \in AboutToSwap(req[p].walletId)
                     THEN overtaken[q] \cup {p} ELSE overtaken[q]]

\* wallet ids a client can name: those a finished setupWallet returned, and
\* ids of no wallet
KnownWalletIds == {w \in WalletIds : setup[w].pc = "done"} \cup {MissingWalletId}

\* ------------------------------------------------------------ the outcomes
Return(p, how, doc) ==
    /\ pc' = [pc EXCEPT ![p] = "done"]
    /\ outcome' = [outcome EXCEPT ![p] = how]
    /\ result' = [result EXCEPT ![p] = doc]

Throw(p, code) == Return(p, code, NoResult)

ConflictCodes == {"RESOURCE_CONFLICT", "IDEMPOTENCY_KEY_CONFLICT"}

\* getTransactions: cursor = null
NoCursor == 0

\* nobody is listing transactions
NoListing ==
    [sortBy |-> "createdAt", sortOrder |-> "desc", limit |-> 0,
     ties |-> "forward", cursor |-> NoCursor, hasMore |-> FALSE,
     pages |-> <<>>, calls |-> 0]

\* exportTransactionsCSV: !walletId
NoWalletId == 0

\* nobody has asked for an export
NoExport ==
    [walletId |-> NoWalletId, limit |-> 0, calls |-> 0, error |-> "none",
     csv |-> [header |-> "", rows |-> <<>>]]

\* getClientId: the client ids of the requests
Clients == {"ip:a", "ip:b"}

\* the rate limiter before its first request: the clock at 0, requestCounts
\* empty
NoLimiter ==
    [now |-> 0, requestCounts |-> <<>>, served |-> 0,
     last |-> [client |-> "none", answer |-> "none"],
     passedAt |-> [c \in Clients |-> <<>>],
     rejectedAt |-> [c \in Clients |-> {}],
     windows |-> [c \in Clients |-> {}]]

\* normalizeLimit has not been called
NoNormalizing ==
    [raw |-> [kind |-> "absent", value |-> 0], min |-> 1, max |-> 1,
     calls |-> 0, value |-> 0]

\* RETRY_CONFIG
MAX_RETRIES == 3
RETRY_DELAY == 1000
RETRY_BACKOFF == 2

\* fetchWithRetry(url, options) has been called: retries = MAX_RETRIES, and
\* the first fetch is awaited
NoOutcome == [kind |-> "none", status |-> 0, name |-> ""]
NoFetching ==
    [retries |-> MAX_RETRIES, at |-> "fetch", attempts |-> <<>>,
     slept |-> <<>>, answer |-> [how |-> "none", of |-> NoOutcome]]

\* ---------------------------------------------------------------- Init
Init ==
    /\ useTransactions \in BOOLEAN
    /\ wallets = <<>>
    /\ transactions = <<>>
    /\ idempotency = <<>>
    /\ pc = [p \in Procs |-> "idle"]
    /\ req = [p \in Procs |-> [walletId |-> MissingWalletId, amount |-> 0,
                               idempotencyKey |-> NoKey]]
    /\ loaded = [p \in Procs |-> NotLoaded]
    /\ returnedBefore = [p \in Procs |-> {}]
    /\ wrote = {}
    /\ raced = [p \in Procs |-> {}]
    /\ overtaken = [p \in Procs |-> {}]
    /\ outcome = [p \in Procs |-> "pending"]
    /\ result = [p \in Procs |-> NoResult]
    /\ setup = [w \in WalletIds |-> [pc |-> "none", initialBalance |-> 0]]
    /\ listing = NoListing
    /\ failed = {}
    /\ exported = NoExport
    /\ limiter = NoLimiter
    /\ normalizing = NoNormalizing
    /\ fetching = NoFetching

\* ------------------------------------------------------ processTransaction
\* An invocation arrives.  Invocations are numbered in the order they arrive.
Start(p) ==
    /\ pc[p] = "idle"
    /\ IF p = 1 THEN TRUE ELSE pc[p - 1] # "idle"
    /\ \E w \in KnownWalletIds, k \in Keys \cup {NoKey} : \E a \in AmountsFor(w) :
        /\ req' = [req EXCEPT ![p] = [walletId |-> w, amount |-> a,
                                      idempotencyKey |-> k]]
        /\ pc' = [pc EXCEPT ![p] = IF k # NoKey THEN "claim" ELSE "load"]
    /\ returnedBefore' = [returnedBefore EXCEPT ![p] =
                              {q \in Procs : pc[q] = "done"}]
    /\ UNCHANGED <<normalizing, fetching, exported, limiter, failed, listing, useTransactions, wallets, transactions, idempotency, loaded,
                   outcome, result, setup, wrote, raced,
                   overtaken>>

\* checkIdempotency: idempotencyDAO.create(key, 'processing'), outside the
\* session.  A failed insert leads to the catch block.
ClaimKey(p) ==
    /\ pc[p] = "claim"
    /\ IF KeyIsFree(req[p].idempotencyKey)
       THEN /\ idempotency' = idempotency @@ (req[p].idempotencyKey :>
                                [status |-> "processing", result |-> NoResult])
            /\ pc' = [pc EXCEPT ![p] = "load"]
       ELSE /\ pc' = [pc EXCEPT ![p] = "find"]
            /\ UNCHANGED idempotency
    /\ UNCHANGED <<normalizing, fetching, exported, limiter, failed, listing, useTransactions, wallets, transactions, req, loaded,
                   returnedBefore, outcome, result, setup, wrote, raced,
                   overtaken>>

\* mutant: a duplicate key does not end the invocation, the pipeline runs again
FindKeyReprocesses(p) ==
    /\ pc[p] = "find"
    /\ pc' = [pc EXCEPT ![p] = "load"]
    /\ UNCHANGED <<normalizing, fetching, exported, limiter, failed, listing, useTransactions, wallets, transactions, idempotency, req,
                   loaded, returnedBefore, wrote, raced, overtaken, outcome,
                   result, setup>>

\* checkIdempotency, catch block: idempotencyDAO.findByKey, then the cached
\* result of a done record, or ConflictError('Request already in-flight')
FindKey(p) ==
    /\ pc[p] = "find"
    /\ IF RecordIsDone(req[p].idempotencyKey)
       THEN Return(p, "cached", idempotency[req[p].idempotencyKey].result)
       ELSE Throw(p, "IDEMPOTENCY_KEY_CONFLICT")
    /\ UNCHANGED <<normalizing, fetching, exported, limiter, failed, listing, useTransactions, wallets, transactions, idempotency, req,
                   loaded, returnedBefore, setup, wrote, raced,
                   overtaken>>

\* mutant: a missing wallet is reported as a lack of balance
LoadWalletMiscodes(p) ==
    /\ pc[p] = "load"
    /\ LET w == req[p].walletId IN
       IF w \notin DOMAIN wallets
       THEN /\ Throw(p, "INSUFFICIENT_BALANCE")
            /\ UNCHANGED <<loaded, raced, overtaken>>
       ELSE /\ loaded' = [loaded EXCEPT ![p] = wallets[w]]
            /\ IF InsufficientBalance(wallets[w].balance, req[p].amount)
               THEN /\ Throw(p, "INSUFFICIENT_BALANCE")
                    /\ UNCHANGED <<raced, overtaken>>
               ELSE /\ pc' = [pc EXCEPT ![p] = "cas"]
                    /\ raced' = [raced EXCEPT ![p] = AboutToSwap(w)]
                    /\ overtaken' = [overtaken EXCEPT ![p] = HoldingWrite(w)]
                    /\ UNCHANGED <<outcome, result>>
    /\ UNCHANGED <<normalizing, fetching, exported, limiter, failed, listing, useTransactions, wallets, transactions, idempotency, req,
                   returnedBefore, wrote, setup>>

\* walletDAO.findById (NotFoundError when absent), then validateBalance
LoadWallet(p) ==
    /\ pc[p] = "load"
    /\ LET w == req[p].walletId IN
       IF w \notin DOMAIN wallets
       THEN /\ Throw(p, "WALLET_NOT_FOUND")
            /\ UNCHANGED <<loaded, raced, overtaken>>
       ELSE /\ loaded' = [loaded EXCEPT ![p] = wallets[w]]
            /\ IF InsufficientBalance(wallets[w].balance, req[p].amount)
               THEN /\ Throw(p, "INSUFFICIENT_BALANCE")
                    /\ UNCHANGED <<raced, overtaken>>
               ELSE /\ pc' = [pc EXCEPT ![p] = "cas"]
                    /\ raced' = [raced EXCEPT ![p] = AboutToSwap(w)]
                    /\ overtaken' = [overtaken EXCEPT ![p] = HoldingWrite(w)]
                    /\ UNCHANGED <<outcome, result>>
    /\ UNCHANGED <<normalizing, fetching, exported, limiter, failed, listing, useTransactions, wallets, transactions, idempotency, req,
                   returnedBefore, wrote, setup>>

\* mutant: after a compare-and-swap that matched nothing the invocation loads
\* the wallet again and retries
UpdateBalanceRetries(p) ==
    /\ pc[p] = "cas"
    /\ LET w == req[p].walletId IN
       IF useTransactions
       THEN IF WrittenSinceRead(p) \/ WriteLocked(w)
            THEN /\ Throw(p, "WriteConflict")
                 /\ UNCHANGED <<wallets, wrote, overtaken>>
            ELSE /\ pc' = [pc EXCEPT ![p] = "create"]
                 /\ overtaken' = Overtaking(p)
                 /\ UNCHANGED <<wallets, wrote, outcome, result>>
       ELSE IF BalanceMatches(w, loaded[p].balance)
            THEN /\ wallets' = [wallets EXCEPT ![w] = WithBalance(wallets[w],
                                    NewBalance(loaded[p].balance, req[p].amount))]
                 /\ pc' = [pc EXCEPT ![p] = "create"]
                 /\ wrote' = wrote \cup {p}
                 /\ overtaken' = Overtaking(p)
                 /\ UNCHANGED <<outcome, result>>
            ELSE /\ pc' = [pc EXCEPT ![p] = "load"]
                 /\ UNCHANGED <<wallets, wrote, overtaken, outcome, result>>
    /\ UNCHANGED <<normalizing, fetching, exported, limiter, failed, listing, useTransactions, transactions, idempotency, req, loaded,
                   returnedBefore, raced, setup>>

\* walletDAO.updateBalance.  Without a session the findOneAndUpdate is applied
\* at once, or matches nothing and returns null (ConflictError).  Inside a
\* session transaction the filter is evaluated on the transaction's snapshot,
\* which the wallet was read from; the write is kept until commit, and it is
\* refused with a write conflict when the document was written since the
\* snapshot or carries another transaction's uncommitted write.
UpdateBalance(p) ==
    /\ pc[p] = "cas"
    /\ LET w == req[p].walletId IN
       IF useTransactions
       THEN IF WrittenSinceRead(p) \/ WriteLocked(w)
            THEN /\ Throw(p, "WriteConflict")
                 /\ UNCHANGED <<wallets, wrote, overtaken>>
            ELSE /\ pc' = [pc EXCEPT ![p] = "create"]
                 /\ overtaken' = Overtaking(p)
                 /\ UNCHANGED <<wallets, wrote, outcome, result>>
       ELSE IF BalanceMatches(w, loaded[p].balance)
            THEN /\ wallets' = [wallets EXCEPT ![w] = WithBalance(wallets[w],
                                    NewBalance(loaded[p].balance, req[p].amount))]
                 /\ pc' = [pc EXCEPT ![p] = "create"]
                 /\ wrote' = wrote \cup {p}
                 /\ overtaken' = Overtaking(p)
                 /\ UNCHANGED <<outcome, result>>
            ELSE /\ Throw(p, "RESOURCE_CONFLICT")
                 /\ UNCHANGED <<wallets, wrote, overtaken>>
    /\ UNCHANGED <<normalizing, fetching, exported, limiter, failed, listing, useTransactions, transactions, idempotency, req, loaded,
                   returnedBefore, raced, setup>>

\* mutant: transactionDAO.create stores nothing
CreateTransactionStoresNothing(p) ==
    /\ pc[p] = "create"
    /\ transactions' = transactions
    /\ IF req[p].idempotencyKey # NoKey
       THEN /\ pc' = [pc EXCEPT ![p] = "mark"]
            /\ UNCHANGED <<outcome, result>>
       ELSE IF useTransactions
            THEN /\ pc' = [pc EXCEPT ![p] = "commit"]
                 /\ UNCHANGED <<outcome, result>>
            ELSE Return(p, "ok", TransactionDoc(p))
    /\ UNCHANGED <<normalizing, fetching, exported, limiter, failed, listing, useTransactions, wallets, idempotency, req, loaded,
                   returnedBefore, setup, wrote, raced,
                   overtaken>>

\* transactionDAO.create; without a key and without a session the invocation
\* returns the created document
CreateTransaction(p) ==
    /\ pc[p] = "create"
    /\ transactions' = IF useTransactions THEN transactions
                       ELSE Append(transactions, TransactionDoc(p))
    /\ IF req[p].idempotencyKey # NoKey
       THEN /\ pc' = [pc EXCEPT ![p] = "mark"]
            /\ UNCHANGED <<outcome, result>>
       ELSE IF useTransactions
            THEN /\ pc' = [pc EXCEPT ![p] = "commit"]
                 /\ UNCHANGED <<outcome, result>>
            ELSE Return(p, "ok", TransactionDoc(p))
    /\ UNCHANGED <<normalizing, fetching, exported, limiter, failed, listing, useTransactions, wallets, idempotency, req, loaded,
                   returnedBefore, setup, wrote, raced,
                   overtaken>>

\* markIdempotencyDone: idempotencyDAO.update(key, {status: 'done', result})
MarkIdempotencyDone(p) ==
    /\ pc[p] = "mark"
    /\ IF useTransactions
       THEN /\ pc' = [pc EXCEPT ![p] = "commit"]
            /\ UNCHANGED <<idempotency, outcome, result>>
       ELSE /\ idempotency' = [idempotency EXCEPT ![req[p].idempotencyKey] =
                                 [status |-> "done", result |-> TransactionDoc(p)]]
            /\ Return(p, "ok", TransactionDoc(p))
    /\ UNCHANGED <<normalizing, fetching, exported, limiter, failed, listing, useTransactions, wallets, transactions, req, loaded,
                   returnedBefore, setup, wrote, raced,
                   overtaken>>

\* mutant: the commit makes the balance visible and drops the record and the
\* done mark
CommitTransactionOfBalanceOnly(p) ==
    /\ pc[p] = "commit"
    /\ wallets' = [wallets EXCEPT ![req[p].walletId] =
                      WithBalance(wallets[req[p].walletId],
                                  NewBalance(loaded[p].balance, req[p].amount))]
    /\ Return(p, "ok", TransactionDoc(p))
    /\ wrote' = wrote \cup {p}
    /\ overtaken' = Overtaking(p)
    /\ UNCHANGED <<normalizing, fetching, exported, limiter, failed, listing, useTransactions, transactions, idempotency, req, loaded,
                   returnedBefore, raced, setup>>

\* session.commitTransaction: the balance, the record and the done mark become
\* visible together
CommitTransaction(p) ==
    /\ pc[p] = "commit"
    /\ LET w == req[p].walletId
           k == req[p].idempotencyKey IN
       /\ wallets' = [wallets EXCEPT ![w] = WithBalance(wallets[w],
                          NewBalance(loaded[p].balance, req[p].amount))]
       /\ transactions' = Append(transactions, TransactionDoc(p))
       /\ idempotency' = IF k = NoKey THEN idempotency
                         ELSE [idempotency EXCEPT ![k] =
                                 [status |-> "done", result |-> TransactionDoc(p)]]
    /\ Return(p, "ok", TransactionDoc(p))
    /\ wrote' = wrote \cup {p}
    /\ overtaken' = Overtaking(p)
    /\ UNCHANGED <<normalizing, fetching, exported, limiter, failed, listing, useTransactions, req, loaded, returnedBefore, raced, setup>>

\* ------------------------------------------------------------- setupWallet
\* walletDAO.create; inside a session the wallet is kept until commit
SetupCreateWallet(w) ==
    /\ setup[w].pc = "none"
    /\ IF w = 1 THEN TRUE ELSE setup[w - 1].pc # "none"
    /\ \E b \in InitialBalances :
        /\ setup' = [setup EXCEPT ![w] = [pc |-> "created", initialBalance |-> b]]
        /\ wallets' = IF useTransactions THEN wallets
                      ELSE wallets @@ (w :> NewWallet(b))
    /\ UNCHANGED <<normalizing, fetching, exported, limiter, failed, listing, useTransactions, transactions, idempotency, pc, req, loaded,
                   returnedBefore, outcome, result, wrote, raced,
                   overtaken>>

\* the initial CREDIT transaction if parseFloat(initialBalance) > 0, then the
\* return without a session
SetupCreateTransaction(w) ==
    /\ setup[w].pc = "created"
    /\ transactions' = IF setup[w].initialBalance > 0 /\ ~useTransactions
                       THEN Append(transactions, InitialTransactionDoc(w))
                       ELSE transactions
    /\ setup' = [setup EXCEPT ![w].pc = IF useTransactions THEN "commit" ELSE "done"]
    /\ UNCHANGED <<normalizing, fetching, exported, limiter, failed, listing, useTransactions, wallets, idempotency, pc, req, loaded,
                   returnedBefore, outcome, result, wrote, raced,
                   overtaken>>

\* session.commitTransaction of setupWallet
SetupCommit(w) ==
    /\ setup[w].pc = "commit"
    /\ wallets' = wallets @@ (w :> NewWallet(setup[w].initialBalance))
    /\ transactions' = IF setup[w].initialBalance > 0
                       THEN Append(transactions, InitialTransactionDoc(w))
                       ELSE transactions
    /\ setup' = [setup EXCEPT ![w].pc = "done"]
    /\ UNCHANGED <<normalizing, fetching, exported, limiter, failed, listing, useTransactions, idempotency, pc, req, loaded,
                   returnedBefore, outcome, result, wrote, raced,
                   overtaken>>

\* ---------------------------------------------------------------- Next
Next ==
    \/ \E p \in Procs : Start(p)
    \/ \E p \in Procs : ClaimKey(p)
    \/ \E p \in Procs : FindKey(p)
    \/ \E p \in Procs : LoadWallet(p)
    \/ \E p \in Procs : UpdateBalance(p)
    \/ \E p \in Procs : CreateTransaction(p)
    \/ \E p \in Procs : MarkIdempotencyDone(p)
    \/ \E p \in Procs : CommitTransaction(p)
    \/ \E w \in WalletIds : SetupCreateWallet(w)
    \/ \E w \in WalletIds : SetupCreateTransaction(w)
    \/ \E w \in WalletIds : SetupCommit(w)

Spec == Init /\ [][Next]_vars

\* ------------------------------------------------------------ two wallets
\* Two wallets exist, each set up with the balance 10 and its initial
\* transaction; the second one carries the id that no setupWallet of the model
\* returns.  Invocations run against either.
SecondWalletId == MissingWalletId
TwoWalletsBalance == 10

InitTwoWallets ==
    /\ useTransactions \in BOOLEAN
    /\ wallets = (1 :> NewWallet(TwoWalletsBalance))
                     @@ (SecondWalletId :> NewWallet(TwoWalletsBalance))
    /\ transactions =
         <<[id |-> MaxProcs + 1, walletId |-> 1,
            amount |-> TwoWalletsBalance, balance |-> TwoWalletsBalance,
            type |-> "CREDIT"],
           [id |-> MaxProcs + SecondWalletId, walletId |-> SecondWalletId,
            amount |-> TwoWalletsBalance, balance |-> TwoWalletsBalance,
            type |-> "CREDIT"]>>
    /\ idempotency = <<>>
    /\ pc = [p \in Procs |-> "idle"]
    /\ req = [p \in Procs |-> [walletId |-> MissingWalletId, amount |-> 0,
                               idempotencyKey |-> NoKey]]
    /\ loaded = [p \in Procs |-> NotLoaded]
    /\ returnedBefore = [p \in Procs |-> {}]
    /\ wrote = {}
    /\ raced = [p \in Procs |-> {}]
    /\ overtaken = [p \in Procs |-> {}]
    /\ outcome = [p \in Procs |-> "pending"]
    /\ result = [p \in Procs |-> NoResult]
    /\ setup = [w \in WalletIds |->
                  IF w = 1
                  THEN [pc |-> "done", initialBalance |-> TwoWalletsBalance]
                  ELSE [pc |-> "none", initialBalance |-> 0]]
    /\ listing = NoListing
    /\ failed = {}
    /\ exported = NoExport
    /\ limiter = NoLimiter
    /\ normalizing = NoNormalizing
    /\ fetching = NoFetching

NextInvocations ==
    \/ \E p \in Procs : Start(p)
    \/ \E p \in Procs : ClaimKey(p)
    \/ \E p \in Procs : FindKey(p)
    \/ \E p \in Procs : LoadWallet(p)
    \/ \E p \in Procs : UpdateBalance(p)
    \/ \E p \in Procs : CreateTransaction(p)
    \/ \E p \in Procs : MarkIdempotencyDone(p)
    \/ \E p \in Procs : CommitTransaction(p)

SpecTwoWallets == InitTwoWallets /\ [][NextInvocations]_vars

\* -------------------------------------------------------------- fairness
\* the next step of invocation p: the store call it is waiting for returns
Proceed(p) ==
    \/ ClaimKey(p) \/ FindKey(p) \/ LoadWallet(p) \/ UpdateBalance(p)
    \/ CreateTransaction(p) \/ MarkIdempotencyDone(p) \/ CommitTransaction(p)

\* every store call an invocation awaits returns: the queries carry maxTimeMS
\* and the session a transaction timeout
\* one wallet, set up with the balance 10 and its initial transaction
InitOneWallet ==
    /\ useTransactions \in BOOLEAN
    /\ wallets = (1 :> NewWallet(TwoWalletsBalance))
    /\ transactions =
         <<[id |-> MaxProcs + 1, walletId |-> 1,
            amount |-> TwoWalletsBalance, balance |-> TwoWalletsBalance,
            type |-> "CREDIT"]>>
    /\ idempotency = <<>>
    /\ pc = [p \in Procs |-> "idle"]
    /\ req = [p \in Procs |-> [walletId |-> MissingWalletId, amount |-> 0,
                               idempotencyKey |-> NoKey]]
    /\ loaded = [p \in Procs |-> NotLoaded]
    /\ returnedBefore = [p \in Procs |-> {}]
    /\ wrote = {}
    /\ raced = [p \in Procs |-> {}]
    /\ overtaken = [p \in Procs |-> {}]
    /\ outcome = [p \in Procs |-> "pending"]
    /\ result = [p \in Procs |-> NoResult]
    /\ setup = [w \in WalletIds |->
                  IF w = 1
                  THEN [pc |-> "done", initialBalance |-> TwoWalletsBalance]
                  ELSE [pc |-> "none", initialBalance |-> 0]]
    /\ listing = NoListing
    /\ failed = {}
    /\ exported = NoExport
    /\ limiter = NoLimiter
    /\ normalizing = NoNormalizing
    /\ fetching = NoFetching

SpecFair ==
    /\ InitOneWallet
    /\ [][NextInvocations]_vars
    /\ \A p \in Procs : WF_vars(Proceed(p))

\* ------------------------------------------------------- storage failures
\* mutant: the catch block undoes what the invocation stored without a
\* session: it writes the loaded balance back and deletes the record it created
StorageFailureCompensates(p) ==
    /\ pc[p] \in {"load", "cas", "create", "mark"}
    /\ Cardinality(failed) < MaxFailures
    /\ failed' = failed \cup {p}
    /\ Throw(p, "DATABASE_ERROR")
    /\ wallets' = IF p \in wrote
                  THEN [wallets EXCEPT ![req[p].walletId] =
                          WithBalance(wallets[req[p].walletId],
                                      loaded[p].balance)]
                  ELSE wallets
    /\ transactions' = SelectSeq(transactions, LAMBDA t : t.id # p)
    /\ wrote' = wrote \ {p}
    /\ UNCHANGED <<normalizing, fetching, exported, limiter, listing, useTransactions, idempotency, req, loaded,
                   returnedBefore, raced, overtaken, setup>>

\* A store call of the pipeline (walletDAO.findById, walletDAO.updateBalance,
\* transactionDAO.create, idempotencyDAO.update) times out or loses the
\* connection: the catch block aborts the session transaction, which drops
\* its uncommitted writes, and rethrows the error.  Writes made without a
\* session stay.
StorageFailure(p) ==
    /\ pc[p] \in {"load", "cas", "create", "mark"}
    /\ Cardinality(failed) < MaxFailures
    /\ failed' = failed \cup {p}
    /\ Throw(p, "DATABASE_ERROR")
    /\ UNCHANGED <<normalizing, fetching, exported, limiter, listing, useTransactions, wallets, transactions, idempotency, req,
                   loaded, returnedBefore, wrote, raced, overtaken, setup>>

\* idempotencyDAO.create of checkIdempotency times out or loses the
\* connection: the catch block of checkIdempotency takes the error for a
\* duplicate key and goes on to findByKey.  The insert may have been applied
\* before the answer was lost.
InsertFailure(p) ==
    /\ pc[p] = "claim"
    /\ Cardinality(failed) < MaxFailures
    /\ failed' = failed \cup {p}
    /\ pc' = [pc EXCEPT ![p] = "find"]
    /\ \/ UNCHANGED idempotency
       \/ /\ KeyIsFree(req[p].idempotencyKey)
          /\ idempotency' = idempotency @@ (req[p].idempotencyKey :>
                              [status |-> "processing", result |-> NoResult])
    /\ UNCHANGED <<normalizing, fetching, exported, limiter, listing, useTransactions, wallets, transactions, req, loaded,
                   returnedBefore, wrote, raced, overtaken, outcome, result,
                   setup>>

NextWithFailures ==
    \/ Next
    \/ \E p \in Procs : StorageFailure(p)
    \/ \E p \in Procs : InsertFailure(p)

SpecWithFailures == Init /\ [][NextWithFailures]_vars

\* ------------------------------------------------- requests, one at a time
\* POST /setup and POST /transact/:walletId as the routes run them: the
\* validation rules, the controller, then the service.  Each request is
\* handled to its response before the next one arrives, so a handler is one
\* step.  A decimal value is counted in units of 10^-5, one fractional digit
\* more than the four the validation rules admit; a body value may carry in
\* addition eps units of 10^-7, below the range in which a JavaScript number
\* prints without an exponent.
Unit == 100000

\* the units of 10^-7 in one unit of 10^-5
EpsPerUnit == 100

\* n hundredths
Cents(n) == n * (Unit \div 100)

\* a JSON body value: a number, a numeric string, or no value
RawNumber(v) == [kind |-> "number", value |-> v, eps |-> 0]
RawString(v) == [kind |-> "string", value |-> v, eps |-> 0]
RawAbsent == [kind |-> "absent", value |-> 0, eps |-> 0]

\* the number 1e-7
RawTiny == [kind |-> "number", value |-> 0, eps |-> 1]

\* 0, "0", "100.50", -30.25, -100.5, 0.00001, 1e-7
AmountInputs ==
    {RawNumber(0), RawString(0), RawString(Cents(10050)),
     RawNumber(-Cents(3025)), RawNumber(-Cents(10050)), RawNumber(1), RawTiny}
AmountInputsFor(w) == IF w \in WalletIds THEN AmountInputs ELSE {RawNumber(Unit)}

\* no balance, 0, 20.5612, 0.00001, -1, 1e-7
BalanceInputs ==
    {RawAbsent, RawNumber(0), RawNumber(205612 * 10), RawNumber(1),
     RawNumber(-Unit), RawTiny}

Abs(v) == IF v < 0 THEN -v ELSE v

\* parseFloat(value), in units of 10^-7
ParseFloat(raw) == raw.value * EpsPerUnit + raw.eps

\* parseFloat(value).toString().split('.')[1].length: the digits after the
\* point in the numeral JavaScript prints for the number.  Below 10^-6 the
\* numeral has an exponent: 1e-7 has no point, and so no decimal part.
DecimalPlaces(raw) ==
    IF raw.eps # 0 THEN (IF raw.value = 0 THEN 0 ELSE 7)
    ELSE IF Abs(raw.value) % 100000 = 0 THEN 0
    ELSE IF Abs(raw.value) % 10000 = 0 THEN 1
    ELSE IF Abs(raw.value) % 1000 = 0 THEN 2
    ELSE IF Abs(raw.value) % 100 = 0 THEN 3
    ELSE IF Abs(raw.value) % 10 = 0 THEN 4
    ELSE 5

\* utils/decimal.js toDecimal: the value as a numeral with four fractional
\* digits, rounded half away from zero.  The eps part of a value is below half
\* of the last digit kept and does not change the result.
ToDecimal(v) ==
    IF v >= 0 THEN ((v + 5) \div 10) * 10 ELSE -(((-v + 5) \div 10) * 10)

\* transactionRules, body('amount'): notEmpty, isFloat, then the custom rule:
\* value === 0 is refused, and more than four fractional digits
AmountIsValid(raw) ==
    /\ ~(raw.kind = "number" /\ ParseFloat(raw) = 0)
    /\ DecimalPlaces(raw) <= 4

\* walletSetupRules, body('balance'): optional, isFloat({min: 0}), then the
\* custom rule
BalanceIsValid(raw) ==
    \/ raw.kind = "absent"
    \/ ParseFloat(raw) >= 0 /\ DecimalPlaces(raw) <= 4

\* transactAmount: const { amount, description, idempotencyKey } = req.body
KeyOfRequest(bodyKey, headerKey) == bodyKey

\* setupWallet: if (parseFloat(initialBalance) > 0)
CreatesInitialTransaction(raw) == ParseFloat(raw) > 0

\* how processTransaction ends for wallet w, amount and key when it runs alone
EndOfPipeline(w, amount, key) ==
    IF key # NoKey /\ ~KeyIsFree(key)
    THEN IF RecordIsDone(key) THEN "cached" ELSE "IDEMPOTENCY_KEY_CONFLICT"
    ELSE IF w \notin DOMAIN wallets THEN "WALLET_NOT_FOUND"
    ELSE IF InsufficientBalance(wallets[w].balance, amount)
    THEN "INSUFFICIENT_BALANCE"
    ELSE "ok"

\* POST /transact/:walletId: validateTransaction, transactAmount, transact,
\* processTransaction
HandleTransact(p) ==
    /\ pc[p] = "idle"
    /\ IF p = 1 THEN TRUE ELSE pc[p - 1] = "done"
    /\ \E w \in KnownWalletIds, bodyKey \in Keys \cup {NoKey},
          headerKey \in Keys \cup {NoKey} : \E raw \in AmountInputsFor(w) :
        LET key == KeyOfRequest(bodyKey, headerKey)
            how == IF AmountIsValid(raw)
                   THEN EndOfPipeline(w, raw.value, key)
                   ELSE "VALIDATION_ERROR"
            doc == [id |-> p, walletId |-> w, amount |-> ToDecimal(raw.value),
                    balance |-> ToDecimal(NewBalance(wallets[w].balance,
                                                     raw.value)),
                    type |-> TransactionType(ParseFloat(raw))]
        IN  /\ req' = [req EXCEPT ![p] =
                        [walletId |-> w, amount |-> raw.value,
                         idempotencyKey |-> key, raw |-> raw,
                         bodyKey |-> bodyKey, headerKey |-> headerKey]]
            /\ idempotency' =
                 IF key = NoKey \/ how \in {"VALIDATION_ERROR", "cached",
                                            "IDEMPOTENCY_KEY_CONFLICT"}
                 THEN idempotency
                 ELSE (key :> IF how = "ok"
                              THEN [status |-> "done", result |-> doc]
                              ELSE [status |-> "processing",
                                    result |-> NoResult]) @@ idempotency
            /\ loaded' = IF how \in {"INSUFFICIENT_BALANCE", "ok"}
                         THEN [loaded EXCEPT ![p] = wallets[w]] ELSE loaded
            /\ wallets' = IF how = "ok"
                          THEN [wallets EXCEPT ![w] =
                                  WithBalance(wallets[w], doc.balance)]
                          ELSE wallets
            /\ transactions' = IF how = "ok" THEN Append(transactions, doc)
                               ELSE transactions
            /\ wrote' = IF how = "ok" THEN wrote \cup {p} ELSE wrote
            /\ Return(p, how, IF how = "ok" THEN doc
                              ELSE IF how = "cached"
                              THEN idempotency[key].result ELSE NoResult)
    /\ returnedBefore' = [returnedBefore EXCEPT ![p] =
                              {q \in Procs : pc[q] = "done"}]
    /\ UNCHANGED <<normalizing, fetching, exported, limiter, failed, listing, useTransactions, raced, overtaken, setup>>

\* POST /setup: validateWalletSetup, the controller's default balance = 0,
\* setupWallet, and the response { id, balance, transactionId, name, date }
HandleSetup(w) ==
    /\ setup[w].pc = "none"
    /\ IF w = 1 THEN TRUE ELSE setup[w - 1].pc # "none"
    /\ \E raw \in BalanceInputs :
        LET balance == ToDecimal(raw.value)
            credited == CreatesInitialTransaction(raw)
        IN  IF BalanceIsValid(raw)
            THEN /\ wallets' = wallets @@ (w :> NewWallet(balance))
                 /\ transactions' =
                      IF credited
                      THEN Append(transactions,
                                  [id |-> MaxProcs + w, walletId |-> w,
                                   amount |-> balance, balance |-> balance,
                                   type |-> "CREDIT"])
                      ELSE transactions
                 /\ setup' = [setup EXCEPT ![w] =
                      [pc |-> "done", initialBalance |-> raw.value,
                       raw |-> raw, balance |-> balance,
                       transactionId |-> IF credited THEN MaxProcs + w ELSE 0]]
            ELSE /\ setup' = [setup EXCEPT ![w] =
                      [pc |-> "rejected", initialBalance |-> raw.value,
                       raw |-> raw, balance |-> 0, transactionId |-> 0]]
                 /\ UNCHANGED <<wallets, transactions>>
    /\ UNCHANGED <<normalizing, fetching, exported, limiter, failed, listing, useTransactions, idempotency, pc, req, loaded,
                   returnedBefore, wrote, raced, overtaken, outcome, result>>

NextRequests ==
    \/ \E p \in Procs : HandleTransact(p)
    \/ \E w \in WalletIds : HandleSetup(w)

SpecRequests == Init /\ [][NextRequests]_vars

\* ------------------------------------------------------- getTransactions
\* A client lists the transactions of wallet 1 page by page: the first request
\* carries no cursor, every further one the nextCursor of the page before, until
\* a page comes with hasMore = false.  Nothing is inserted meanwhile.  The
\* records carry createdAt, the instant (in milliseconds) of their creation.
ListedWallet == 1
ListedAmounts == {5, 50}
Times == 1..MaxTime
Limits == 0..MaxLimit
SortFields == {"createdAt", "amount"}
SortOrders == {"asc", "desc"}

\* the order the store gives to records of equal sort key is not specified:
\* by insertion, or against it
TieOrders == {"forward", "backward"}

\* normalizeLimit(limit, min = 1, max = 1000)
DefaultMinLimit == 1
DefaultMaxLimit == 1000

RECURSIVE BalanceAfter(_, _)
\* the balance of a wallet created empty after the first n credits
BalanceAfter(amounts, n) ==
    IF n = 0 THEN 0 ELSE BalanceAfter(amounts, n - 1) + amounts[n]

\* the Transaction collections of n credits to the listed wallet, created at
\* instants that do not decrease.  createdAt values are only compared with
\* each other and with the cursor ($lt, $gt, sort), so the instants are
\* counted from 1 without gaps: a record is created in the millisecond of
\* the record before it, or in the next one
CollectionsOf(n) ==
    {[i \in 1..n |-> [id |-> i, walletId |-> ListedWallet,
                      amount |-> amounts[i],
                      balance |-> BalanceAfter(amounts, i),
                      type |-> TransactionType(amounts[i]),
                      createdAt |-> times[i]]] :
        times \in {t \in [1..n -> Times] :
                      \A i \in 1..n : IF i = 1 THEN t[i] = 1
                                        ELSE t[i] - t[i - 1] \in {0, 1}},
        amounts \in [1..n -> ListedAmounts]}

\* mutant: the parsed limit is returned as it is
NormalizeLimitUnclamped(limit, min, max) == limit

\* normalizeLimit
NormalizeLimit(limit, min, max) ==
    IF limit < min THEN min ELSE IF limit > max THEN max ELSE limit

\* buildTransactionQuery: walletId, and createdAt { $lt } the cursor when
\* sortOrder is 'desc', { $gt } otherwise
MatchesQuery(doc, walletId, cursor, sortOrder) ==
    /\ doc.walletId = walletId
    /\ \/ cursor = NoCursor
       \/ IF sortOrder = "desc" THEN doc.createdAt < cursor
          ELSE doc.createdAt > cursor

\* getTransactions: sortObj = { [sortBy]: sortDirection }
SortKey(doc, sortBy) == IF sortBy = "createdAt" THEN doc.createdAt ELSE doc.amount

\* a comes before b in a result sorted by sortObj
SortsBefore(a, b, sortBy, sortOrder, ties) ==
    IF SortKey(a, sortBy) # SortKey(b, sortBy)
    THEN IF sortOrder = "desc" THEN SortKey(a, sortBy) > SortKey(b, sortBy)
         ELSE SortKey(a, sortBy) < SortKey(b, sortBy)
    ELSE IF ties = "forward" THEN a.id < b.id ELSE a.id > b.id

\* transactionDAO.find(query, { limit, sort }): the first `limit` of the
\* matching records in sort order
Find(docs, walletId, cursor, sortBy, sortOrder, ties, limit) ==
    LET matched == {i \in 1..Len(docs) :
                       MatchesQuery(docs[i], walletId, cursor, sortOrder)}
        rank(i) == Cardinality({j \in matched :
                       SortsBefore(docs[j], docs[i], sortBy, sortOrder, ties)})
        sorted == [k \in 1..Cardinality(matched) |->
                       docs[CHOOSE i \in matched : rank(i) = k - 1]]
    IN  IF Len(sorted) > limit THEN SubSeq(sorted, 1, limit) ELSE sorted

\* mutant: the cursor is taken from the last fetched row, the extra one
\* included
BuildPaginationMetadataFromFetched(found, limit) ==
    [limit |-> limit, hasMore |-> Len(found) > limit,
     nextCursor |-> IF Len(found) > 0
                    THEN found[Len(found)].createdAt ELSE NoCursor,
     count |-> IF Len(found) > limit THEN limit ELSE Len(found)]

\* buildPaginationMetadata(transactions, limit)
BuildPaginationMetadata(found, limit) ==
    LET hasMore == Len(found) > limit
        results == IF hasMore THEN SubSeq(found, 1, limit) ELSE found
    IN  [limit |-> limit, hasMore |-> hasMore,
         nextCursor |-> IF Len(results) > 0
                        THEN results[Len(results)].createdAt ELSE NoCursor,
         count |-> Len(results)]

\* getTransactions(walletId, { limit, cursor, sortBy, sortOrder }), called by
\* the client for the next page
GetTransactions ==
    /\ listing.calls = 0 \/ listing.hasMore
    /\ LET queryLimit == NormalizeLimit(listing.limit, DefaultMinLimit,
                                        DefaultMaxLimit)
           found == Find(transactions, ListedWallet, listing.cursor,
                         listing.sortBy, listing.sortOrder, listing.ties,
                         queryLimit + 1)
           pagination == BuildPaginationMetadata(found, queryLimit)
           results == IF pagination.hasMore THEN SubSeq(found, 1, queryLimit)
                      ELSE found
       IN  listing' = [listing EXCEPT !.cursor = pagination.nextCursor,
                                      !.hasMore = pagination.hasMore,
                                      !.pages = @ \o results,
                                      !.calls = @ + 1]
    /\ UNCHANGED <<normalizing, fetching, exported, limiter, useTransactions, wallets, transactions,
                   idempotency, pc,
                   req, loaded, returnedBefore, wrote, raced, overtaken,
                   outcome, result, setup, failed>>

\* a wallet with its credits, and a client about to list them
InitPagination ==
    /\ useTransactions = FALSE
    /\ \E n \in 0..MaxRecords : transactions \in CollectionsOf(n)
    /\ wallets = (ListedWallet :>
                    [balance |-> IF transactions = <<>> THEN 0
                                 ELSE transactions[Len(transactions)].balance,
                     updatedAt |-> Len(transactions)])
    /\ idempotency = <<>>
    /\ pc = [p \in Procs |-> "idle"]
    /\ req = [p \in Procs |-> [walletId |-> MissingWalletId, amount |-> 0,
                               idempotencyKey |-> NoKey]]
    /\ loaded = [p \in Procs |-> NotLoaded]
    /\ returnedBefore = [p \in Procs |-> {}]
    /\ wrote = {}
    /\ raced = [p \in Procs |-> {}]
    /\ overtaken = [p \in Procs |-> {}]
    /\ outcome = [p \in Procs |-> "pending"]
    /\ result = [p \in Procs |-> NoResult]
    /\ setup = [w \in WalletIds |-> [pc |-> "done", initialBalance |-> 0]]
    /\ failed = {}
    /\ exported = NoExport
    /\ limiter = NoLimiter
    /\ normalizing = NoNormalizing
    /\ fetching = NoFetching
    /\ \E sortBy \in SortFields, sortOrder \in SortOrders, limit \in Limits,
          ties \in TieOrders :
        listing = [sortBy |-> sortBy, sortOrder |-> sortOrder,
                   limit |-> limit, ties |-> ties, cursor |-> NoCursor,
                   hasMore |-> FALSE, pages |-> <<>>, calls |-> 0]

NextPagination == GetTransactions

SpecPagination == InitPagination /\ [][NextPagination]_vars

\* ------------------------------------------------- exportTransactionsCSV
\* exportTransactionsCSV(walletId, limit = 10000)
DefaultExportLimit == 10000

\* exportTransactionsCSV: normalizeLimit(limit, 1, 100000)
ExportMaxLimit == 100000

\* getTransactions (skip/limit): normalizeLimit(limit, 1, 100)
SkipLimitMaxLimit == 100

\* no invocation of processTransaction has been made
NoInvocations ==
    /\ idempotency = <<>>
    /\ pc = [p \in Procs |-> "idle"]
    /\ req = [p \in Procs |-> [walletId |-> MissingWalletId, amount |-> 0,
                               idempotencyKey |-> NoKey]]
    /\ loaded = [p \in Procs |-> NotLoaded]
    /\ returnedBefore = [p \in Procs |-> {}]
    /\ wrote = {}
    /\ raced = [p \in Procs |-> {}]
    /\ overtaken = [p \in Procs |-> {}]
    /\ outcome = [p \in Procs |-> "pending"]
    /\ result = [p \in Procs |-> NoResult]
    /\ failed = {}

\* the sizes of the exported wallet's collection: small ones, and the ones
\* around the largest page of getTransactions
ExportSizes == (0..MaxRecords) \cup {SkipLimitMaxLimit, SkipLimitMaxLimit + 1}

\* the limits asked for
ExportLimits ==
    {0, 1, 2, SkipLimitMaxLimit, SkipLimitMaxLimit + 1, DefaultExportLimit,
     ExportMaxLimit, ExportMaxLimit + 1}

\* n credits to the listed wallet, created at the instants 1..n, followed by
\* m credits to another wallet
ExportCollection(n, m) ==
    [i \in 1..(n + m) |->
        [id |-> i,
         walletId |-> IF i <= n THEN ListedWallet ELSE SecondWalletId,
         amount |-> 5,
         balance |-> IF i <= n THEN 5 * i ELSE 5 * (i - n),
         description |-> "credit",
         type |-> "CREDIT",
         createdAt |-> i]]

\* Math.max(0, parseInt(skip) || 0)
QuerySkip(skip) == IF skip < 0 THEN 0 ELSE skip

\* getTransactions(walletId, { skip, limit, sortBy, sortOrder }) of the
\* skip/limit version: transactionDAO.find(query, { skip, limit, sort })
GetTransactionsSkipLimit(docs, walletId, skip, limit, sortBy, sortOrder, ties) ==
    LET queryLimit == NormalizeLimit(limit, 1, SkipLimitMaxLimit)
        querySkip == QuerySkip(skip)
        found == Find(docs, walletId, NoCursor, sortBy, sortOrder, ties,
                      querySkip + queryLimit)
    IN  [transactions |-> IF Len(found) > querySkip
                          THEN SubSeq(found, querySkip + 1, Len(found))
                          ELSE <<>>]

\* toCSV: the header line, and a row of five fields for each transaction
ToCSV(txs) ==
    [header |-> "Date,Amount,Balance,Description,Type",
     rows |-> [i \in 1..Len(txs) |->
                  <<txs[i].createdAt, txs[i].amount, txs[i].balance,
                    txs[i].description, txs[i].type>>]]

\* exportTransactionsCSV(walletId, limit)
ExportTransactionsCSV ==
    /\ exported.calls = 0
    /\ IF exported.walletId = NoWalletId
       THEN exported' = [exported EXCEPT !.calls = 1,
                                         !.error = "VALIDATION_ERROR"]
       ELSE \E ties \in TieOrders :
              LET exportLimit == NormalizeLimit(exported.limit, 1,
                                                ExportMaxLimit)
                  found == GetTransactionsSkipLimit(transactions,
                               exported.walletId, 0, exportLimit,
                               "createdAt", "desc", ties)
              IN  exported' = [exported EXCEPT
                                  !.calls = 1,
                                  !.csv = ToCSV(found.transactions)]
    /\ UNCHANGED <<normalizing, fetching, limiter, useTransactions, wallets, transactions,
                   idempotency, pc, req, loaded, returnedBefore, wrote, raced,
                   overtaken, outcome, result, setup, listing, failed>>

\* two wallets with their credits, and a client about to export the first
InitExport ==
    /\ useTransactions = FALSE
    /\ \E n \in ExportSizes, m \in 0..1 :
          /\ transactions = ExportCollection(n, m)
          /\ wallets = (ListedWallet :>
                           [balance |-> 5 * n, updatedAt |-> n])
                       @@ (SecondWalletId :>
                           [balance |-> 5 * m, updatedAt |-> n + m])
    /\ NoInvocations
    /\ setup = [w \in WalletIds |-> [pc |-> "done", initialBalance |-> 0]]
    /\ listing = NoListing
    /\ limiter = NoLimiter
    /\ normalizing = NoNormalizing
    /\ fetching = NoFetching
    /\ \E walletId \in {ListedWallet, NoWalletId}, limit \in ExportLimits :
          exported = [NoExport EXCEPT !.walletId = walletId, !.limit = limit]

NextExport == ExportTransactionsCSV

SpecExport == InitExport /\ [][NextExport]_vars

\* ------------------------------------------------------------ rateLimiter
\* WINDOW_MS and MAX_REQUESTS of the middleware, and the last instant of the
\* clock and the number of requests looked at
WINDOW_MS == 2
MAX_REQUESTS == 2
MaxNow == 5
MaxServed == 6

\* mutant: the limit is reached one request late
LimitReachedLate(count) == count > MAX_REQUESTS

\* rateLimiter: record.count >= MAX_REQUESTS
LimitReached(count) == count >= MAX_REQUESTS

\* mutant: the window is over at windowStart + WINDOW_MS already
WindowOverAtEnd(record, now) == now - record.windowStart >= WINDOW_MS

\* rateLimiter and the cleanup: now - windowStart > WINDOW_MS
WindowOver(record, now) == now - record.windowStart > WINDOW_MS

\* Date.now() moves on
Tick ==
    /\ limiter.now < MaxNow
    /\ limiter' = [limiter EXCEPT !.now = @ + 1]
    /\ UNCHANGED <<normalizing, fetching, exported, useTransactions, wallets, transactions,
                   idempotency, pc, req, loaded, returnedBefore, wrote, raced,
                   overtaken, outcome, result, setup, listing, failed>>

\* rateLimiter(req, res, next) for a request of client c
RateLimiter(c) ==
    /\ limiter.served < MaxServed
    /\ LET now == limiter.now
           counts == limiter.requestCounts
       IN  IF c \notin DOMAIN counts \/ WindowOver(counts[c], now)
           THEN limiter' = [limiter EXCEPT
                   !.requestCounts =
                       (c :> [count |-> 1, windowStart |-> now]) @@ counts,
                   !.served = @ + 1,
                   !.last = [client |-> c, answer |-> "next"],
                   !.passedAt[c] = Append(@, now),
                   !.windows[c] = @ \cup {now}]
           ELSE IF LimitReached(counts[c].count)
           THEN limiter' = [limiter EXCEPT
                   !.served = @ + 1,
                   !.last = [client |-> c, answer |-> "RATE_LIMIT_EXCEEDED"],
                   !.rejectedAt[c] = @ \cup {now}]
           ELSE limiter' = [limiter EXCEPT
                   !.requestCounts[c].count = @ + 1,
                   !.served = @ + 1,
                   !.last = [client |-> c, answer |-> "next"],
                   !.passedAt[c] = Append(@, now)]
    /\ UNCHANGED <<normalizing, fetching, exported, useTransactions, wallets, transactions,
                   idempotency, pc, req, loaded, returnedBefore, wrote, raced,
                   overtaken, outcome, result, setup, listing, failed>>

\* the setInterval callback: entries whose window is over are deleted
Cleanup ==
    /\ LET counts == limiter.requestCounts
           kept == {c \in DOMAIN counts : ~WindowOver(counts[c], limiter.now)}
       IN  limiter' = [limiter EXCEPT
               !.requestCounts = [c \in kept |-> counts[c]]]
    /\ UNCHANGED <<normalizing, fetching, exported, useTransactions, wallets, transactions,
                   idempotency, pc, req, loaded, returnedBefore, wrote, raced,
                   overtaken, outcome, result, setup, listing, failed>>

\* the process has started: requestCounts is empty
InitRateLimiter ==
    /\ useTransactions = FALSE
    /\ wallets = <<>>
    /\ transactions = <<>>
    /\ NoInvocations
    /\ setup = [w \in WalletIds |-> [pc |-> "none", initialBalance |-> 0]]
    /\ listing = NoListing
    /\ exported = NoExport
    /\ limiter = NoLimiter
    /\ normalizing = NoNormalizing
    /\ fetching = NoFetching

NextRateLimiter ==
    \/ Tick
    \/ \E c \in Clients : RateLimiter(c)
    \/ Cleanup

SpecRateLimiter == InitRateLimiter /\ [][NextRateLimiter]_vars

\* ----------------------------------------------------------- normalizeLimit
\* the limit handed to normalizeLimit: a number that is an integer, a number
\* with the fraction .5 after the integer v, the numeral of an integer as a
\* string, such a numeral followed by letters ("12abc") or by an exponent
\* ("1e3"), a string with no leading digits, undefined, or NaN
LimitKinds ==
    {"integer", "fraction", "numeral", "prefixed", "exponent", "text",
     "absent", "NaN"}
LimitValues == {-1, 0, 1, 2, 100, 101, 1000, 1001, 100000, 100001}
LimitInputs == [kind : LimitKinds, value : LimitValues]

\* the (min, max) of the calls of normalizeLimit: getTransactions (skip/limit),
\* the defaults, exportTransactionsCSV
LimitRanges ==
    {<<DefaultMinLimit, SkipLimitMaxLimit>>,
     <<DefaultMinLimit, DefaultMaxLimit>>,
     <<DefaultMinLimit, ExportMaxLimit>>}

\* parseInt(limit): the leading integer numeral of String(limit).  A fraction,
\* trailing letters and an exponent are dropped; without a leading numeral the
\* result is NaN.
ParseInt(raw) ==
    IF raw.kind \in {"text", "absent", "NaN"}
    THEN [nan |-> TRUE, value |-> 0]
    ELSE [nan |-> FALSE, value |-> raw.value]

\* normalizeLimit(limit, min, max) for any limit: parseInt, then the bounds
NormalizeRawLimit(raw, min, max) ==
    LET parsed == ParseInt(raw)
    IN  IF parsed.nan THEN min ELSE NormalizeLimit(parsed.value, min, max)

\* a call of normalizeLimit
NormalizeLimitCall ==
    /\ normalizing.calls = 0
    /\ normalizing' = [normalizing EXCEPT
           !.calls = 1,
           !.value = NormalizeRawLimit(normalizing.raw, normalizing.min,
                                       normalizing.max)]
    /\ UNCHANGED <<fetching, exported, limiter, useTransactions, wallets,
                   transactions, idempotency, pc, req, loaded, returnedBefore,
                   wrote, raced, overtaken, outcome, result, setup, listing,
                   failed>>

InitNormalizeLimit ==
    /\ useTransactions = FALSE
    /\ wallets = <<>>
    /\ transactions = <<>>
    /\ NoInvocations
    /\ setup = [w \in WalletIds |-> [pc |-> "none", initialBalance |-> 0]]
    /\ listing = NoListing
    /\ exported = NoExport
    /\ limiter = NoLimiter
    /\ fetching = NoFetching
    /\ \E raw \in LimitInputs, range \in LimitRanges :
          normalizing = [raw |-> raw, min |-> range[1], max |-> range[2],
                         calls |-> 0, value |-> 0]

NextNormalizeLimit == NormalizeLimitCall

SpecNormalizeLimit == InitNormalizeLimit /\ [][NextNormalizeLimit]_vars

\* ----------------------------------------------------------- fetchWithRetry
\* how an attempt ends: a response with its status, a network error, or the
\* AbortError of an aborted request
Response(status) == [kind |-> "response", status |-> status, name |-> ""]
Failure(name) == [kind |-> "error", status |-> 0, name |-> name]
Statuses == {200, 404, 409, 500, 503}
AttemptOutcomes ==
    {Response(status) : status \in Statuses}
        \cup {Failure("TypeError"), Failure("AbortError")}

\* response.ok
ResponseOk(status) == status >= 200 /\ status < 300

\* mutant: no response counts as a client error
IsClientErrorNever(status) == FALSE

\* response.status >= 400 && response.status < 500
IsClientError(status) == status >= 400 /\ status < 500

RECURSIVE Pow(_, _)
\* Math.pow(base, exponent)
Pow(base, exponent) ==
    IF exponent = 0 THEN 1 ELSE base * Pow(base, exponent - 1)

\* fetchWithRetry: await fetch(url, options) settles
FetchSettles ==
    /\ fetching.at = "fetch"
    /\ \E o \in AttemptOutcomes :
         LET returns == [fetching EXCEPT !.attempts = Append(@, o),
                                         !.at = "done",
                                         !.answer = [how |-> "return", of |-> o]]
             throws == [fetching EXCEPT !.attempts = Append(@, o),
                                        !.at = "done",
                                        !.answer = [how |-> "throw", of |-> o]]
             sleeps == [fetching EXCEPT !.attempts = Append(@, o),
                                        !.at = "sleep"]
         IN  fetching' =
               IF o.kind = "response"
               THEN IF ~ResponseOk(o.status) /\ IsClientError(o.status)
                    THEN returns
                    ELSE IF ~ResponseOk(o.status) /\ fetching.retries > 0
                    THEN sleeps
                    ELSE returns
               ELSE IF o.name = "AbortError" THEN throws
                    ELSE IF fetching.retries > 0 THEN sleeps
                    ELSE throws
    /\ UNCHANGED <<normalizing, exported, limiter, useTransactions, wallets,
                   transactions, idempotency, pc, req, loaded, returnedBefore,
                   wrote, raced, overtaken, outcome, result, setup, listing,
                   failed>>

\* fetchWithRetry: the sleep is over, and fetchWithRetry(url, options,
\* retries - 1) is called
SleepEnds ==
    /\ fetching.at = "sleep"
    /\ fetching' = [fetching EXCEPT
           !.slept = Append(@, RETRY_DELAY
                       * Pow(RETRY_BACKOFF, MAX_RETRIES - fetching.retries)),
           !.retries = @ - 1,
           !.at = "fetch"]
    /\ UNCHANGED <<normalizing, exported, limiter, useTransactions, wallets,
                   transactions, idempotency, pc, req, loaded, returnedBefore,
                   wrote, raced, overtaken, outcome, result, setup, listing,
                   failed>>

InitFetch ==
    /\ useTransactions = FALSE
    /\ wallets = <<>>
    /\ transactions = <<>>
    /\ NoInvocations
    /\ setup = [w \in WalletIds |-> [pc |-> "none", initialBalance |-> 0]]
    /\ listing = NoListing
    /\ exported = NoExport
    /\ limiter = NoLimiter
    /\ normalizing = NoNormalizing
    /\ fetching = NoFetching

NextFetch == FetchSettles \/ SleepEnds

SpecFetch == InitFetch /\ [][NextFetch]_vars

\* every fetch settles (with a response or an error) and every timer fires
SpecFetchFair == SpecFetch /\ WF_vars(NextFetch)

\* ================================================================== claims
\* the sum of the amounts of the stored Transaction records of wallet w
RECURSIVE SumAmounts(_, _)
SumAmounts(txs, w) ==
    IF txs = <<>> THEN 0
    ELSE (IF Head(txs).walletId = w THEN Head(txs).amount ELSE 0)
         + SumAmounts(Tail(txs), w)

\* without a session: the invocation has swapped the balance of w and has not
\* yet created its Transaction record
BetweenSwapAndRecord(p, w) ==
    ~useTransactions /\ pc[p] = "create" /\ req[p].walletId = w

RECURSIVE UnrecordedAmounts(_, _)
UnrecordedAmounts(n, w) ==
    IF n = 0 THEN 0
    ELSE (IF BetweenSwapAndRecord(n, w) THEN req[n].amount ELSE 0)
         + UnrecordedAmounts(n - 1, w)

\* without a session: setupWallet has created wallet w and not yet its initial
\* transaction
UnrecordedInitialBalance(w) ==
    IF ~useTransactions /\ setup[w].pc = "created"
    THEN setup[w].initialBalance ELSE 0

C2_NonNegativeBalance ==
    \A w \in DOMAIN wallets : wallets[w].balance >= 0

\* C2 witness: a debit was applied and another debit was refused
C2_Witness ==
    \E p, q \in Procs :
        /\ outcome[p] = "ok" /\ req[p].amount < 0
        /\ outcome[q] = "INSUFFICIENT_BALANCE"
        /\ req[q].walletId = req[p].walletId

\* every invocation that arrived has returned or thrown
AllReturned == \A p \in Procs : pc[p] \in {"idle", "done"}

\* the invocation created no Transaction record
NoRecordOf(p) == \A i \in 1..Len(transactions) : transactions[i].id # p

\* the step is taken by invocation p
StepOf(p) == pc'[p] # pc[p]

RECURSIVE SumOfAmounts(_, _, _)
\* the sum of the amounts of the invocations 1..n against wallet w whose
\* outcome is in hows
SumOfAmounts(n, w, hows) ==
    IF n = 0 THEN 0
    ELSE (IF req[n].walletId = w /\ outcome[n] \in hows
          THEN req[n].amount ELSE 0)
         + SumOfAmounts(n - 1, w, hows)

\* the compare-and-swap of p, taken in this step, matches no document
\* (findOneAndUpdate returns null)
SwapFindsOtherBalance(p) ==
    /\ pc[p] = "cas" /\ StepOf(p)
    /\ ~useTransactions
    /\ ~BalanceMatches(req[p].walletId, loaded[p].balance)

\* an invocation whose compare-and-swap found a different stored balance
\* fails with ConflictError and creates no Transaction record
C3_LostSwapConflicts ==
    \A p \in Procs :
        SwapFindsOtherBalance(p) =>
            /\ pc'[p] = "done" /\ outcome'[p] = "RESOURCE_CONFLICT"
            /\ transactions' = transactions /\ wallets' = wallets
            /\ NoRecordOf(p)

RecordsOf(ps) == {i \in 1..Len(transactions) : transactions[i].id \in ps}

\* the invocation returned a Transaction
ReturnedTransaction(p) == outcome[p] \in {"ok", "cached"}

\* q is the second of two calls with the arguments of p: it arrived after p
\* had returned, and it has returned
CalledAgain(p, q) ==
    /\ p # q
    /\ req[p].idempotencyKey # NoKey
    /\ req[q] = req[p]
    /\ p \in returnedBefore[q]
    /\ pc[q] = "done"

\* no invocation but p and q carries their key
OnlyCallsWithKey(p, q) ==
    \A r \in Procs \ {p, q} : req[r].idempotencyKey # req[p].idempotencyKey

\* the balance change is applied once, by p, and q returns what p returned
AppliedOnceAndReplayed(p, q) ==
    /\ wrote \cap {p, q} = {p}
    /\ RecordsOf({p, q}) = RecordsOf({p})
    /\ Cardinality(RecordsOf({p})) = 1
    /\ ReturnedTransaction(p) /\ ReturnedTransaction(q)
    /\ result[q] = result[p]

CarryingKey(k) == {p \in Procs : pc[p] # "idle" /\ req[p].idempotencyKey = k}

\* C5: for every idempotency key, across all sequential and concurrent
\* invocations carrying it, at most one Transaction record is created and at
\* most one of the invocations changes the wallet balance.
C5_AtMostOneEffectPerKey ==
    \A k \in Keys :
        /\ Cardinality(RecordsOf(CarryingKey(k))) <= 1
        /\ Cardinality(wrote \cap CarryingKey(k)) <= 1

\* C5 witness: three invocations carry one key, one has written and recorded,
\* one arrived while it was running and one after it had returned
C5_Witness ==
    \E p, q, r \in Procs :
        /\ {p, q, r} \subseteq CarryingKey("k1")
        /\ p \in wrote /\ Cardinality(RecordsOf({p})) = 1
        /\ outcome[q] = "IDEMPOTENCY_KEY_CONFLICT" /\ p \notin returnedBefore[q]
        /\ outcome[r] = "cached" /\ p \in returnedBefore[r]

\* ------------------------------------------------------------------- C6
\* Scenario C has run: on a wallet set up with balance 0, invocations 1 and 2,
\* the only ones, are credits of 50 with key "k1", the second arrived before
\* the first returned, and both have returned
ScenarioC ==
    /\ 1 \in DOMAIN wallets /\ setup[1].initialBalance = 0
    /\ \A p \in {1, 2} :
        /\ pc[p] = "done"
        /\ req[p] = [walletId |-> 1, amount |-> 50, idempotencyKey |-> "k1"]
    /\ 1 \notin returnedBefore[2]
    /\ \A p \in Procs \ {1, 2} : pc[p] = "idle"

\* exactly one Transaction of amount 50 is created
OneCreditOfFifty ==
    /\ Cardinality(RecordsOf(Procs)) = 1
    /\ \A i \in RecordsOf(Procs) : transactions[i].amount = 50

BothLoadedBeforeSwap(p, q) ==
    /\ p # q
    /\ q \in raced[p] \/ p \in raced[q]
    /\ pc[p] = "done" /\ pc[q] = "done"

\* one of p and q completed and the other failed with one of the codes
OneWinsOtherFails(p, q, codes) ==
    \/ outcome[p] = "ok" /\ outcome[q] \in codes
    \/ outcome[q] = "ok" /\ outcome[p] \in codes

\* no invocation but p and q wrote the wallet between the load and the swap
\* of either
NoThirdWriter(p, q) == overtaken[p] \subseteq {q} /\ overtaken[q] \subseteq {p}

LoadsInsufficientBalance(p) ==
    /\ pc[p] = "load" /\ StepOf(p)
    /\ req[p].walletId \in DOMAIN wallets
    /\ wallets[req[p].walletId].balance + req[p].amount < 0

\* the step ends p with the code and leaves the three collections as they are
EndsWithout(p, code) ==
    /\ pc'[p] = "done" /\ outcome'[p] = code
    /\ wallets' = wallets
    /\ transactions' = transactions
    /\ idempotency' = idempotency
    /\ wrote' = wrote

\* C8: an invocation whose new balance (loaded balance + amount) would be
\* negative fails with InsufficientBalanceError and leaves the wallet balance
\* and the Transaction records unchanged: it never writes the balance and
\* never adds a record.
C8_InsufficientBalanceNoEffect ==
    /\ [][\A p \in Procs : LoadsInsufficientBalance(p) =>
                              EndsWithout(p, "INSUFFICIENT_BALANCE")]_vars
    /\ [](\A p \in Procs : outcome[p] = "INSUFFICIENT_BALANCE" =>
            /\ loaded[p].balance + req[p].amount < 0
            /\ p \notin wrote /\ NoRecordOf(p))

\* C8 witness: balance 10, a debit of 50 has failed, the balance is 10 and the
\* only record is the initial credit
C8_Witness ==
    \E p \in Procs :
        /\ outcome[p] = "INSUFFICIENT_BALANCE"
        /\ req[p].amount = -50 /\ loaded[p].balance = 10
        /\ wallets[req[p].walletId].balance = 10
        /\ wrote = {} /\ Len(transactions) = 1

\* ------------------------------------------------------------------- C9
\* the record of p's key as the store holds it
StoredStatus(p) ==
    IF req[p].idempotencyKey \in DOMAIN idempotency
    THEN idempotency[req[p].idempotencyKey].status ELSE "absent"

\* p is in checkIdempotency
ChecksKey(p) == pc[p] \in {"claim", "find"} /\ StepOf(p)

\* C9: an invocation whose idempotency key already has a record with status
\* done returns that record's cached result and leaves the wallet, the
\* Transaction records and the idempotency record unchanged; it loads no
\* wallet, performs no compare-and-swap and creates no record.
C9_ReplayIsSideEffectFree ==
    /\ [][\A p \in Procs : ChecksKey(p) /\ StoredStatus(p) = "done" =>
            /\ wallets' = wallets /\ transactions' = transactions
            /\ idempotency' = idempotency /\ wrote' = wrote
            /\ loaded'[p] = NotLoaded
            /\ pc[p] = "claim" => pc'[p] = "find"
            /\ pc[p] = "find" =>
                /\ pc'[p] = "done" /\ outcome'[p] = "cached"
                /\ result'[p] = idempotency[req[p].idempotencyKey].result]_vars
    /\ [](\A p \in Procs : outcome[p] = "cached" =>
            /\ loaded[p] = NotLoaded /\ p \notin wrote /\ NoRecordOf(p)
            /\ result[p] # NoResult
            /\ result[p] = idempotency[req[p].idempotencyKey].result)

\* C9 witness: a replay has returned the cached Transaction of a key whose
\* wallet another invocation has written since
C9_Witness ==
    \E p, q, r \in Procs :
        /\ outcome[p] = "cached" /\ outcome[q] = "ok" /\ result[p] = result[q]
        /\ r # q /\ outcome[r] = "ok" /\ q \in returnedBefore[r]
        /\ r \in returnedBefore[p]
        /\ wallets[req[q].walletId].balance # result[p].balance

RetriedAfterLockLoss(p, q) ==
    /\ CalledAgain(p, q)
    /\ outcome[p] = "RESOURCE_CONFLICT"
    /\ OnlyCallsWithKey(p, q)

\* C11: after a keyed invocation failed with ConflictError because it lost the
\* compare-and-swap, a later invocation with the same key, with no other
\* invocation of the key in flight, is processed as a new attempt: it is not
\* rejected as in-flight, it loads the wallet.
C11_KeyReusableAfterLockLoss ==
    \A p, q \in Procs :
        RetriedAfterLockLoss(p, q) =>
            outcome[q] # "IDEMPOTENCY_KEY_CONFLICT" /\ loaded[q] # NotLoaded

\* C11 witness: the retry of a request that lost the swap has been rejected
\* as in-flight while no invocation is running
C11_Witness ==
    \E p, q \in Procs :
        /\ RetriedAfterLockLoss(p, q)
        /\ outcome[q] = "IDEMPOTENCY_KEY_CONFLICT"
        /\ AllReturned

\* ------------------------------------------------------------------ C12
\* the step stores the balance write of p
StoresWriteOf(p) == p \in wrote' /\ p \notin wrote

RecordsInOrder(w) == SelectSeq(transactions, LAMBDA t : t.walletId = w)

\* each record's balance is the previous record's balance (0 for the first)
\* plus its own amount
IsSnapshotChain(recs) ==
    \A i \in 1..Len(recs) :
        recs[i].balance
            = (IF i = 1 THEN 0 ELSE recs[i - 1].balance) + recs[i].amount

\* C14: for every wallet, in every reachable state, the Transaction records
\* taken in creation order form a snapshot chain: each record's balance is the
\* previous record's balance (or 0 for a fresh wallet) plus its own amount.
C14_SnapshotChain ==
    \A w \in WalletIds : IsSnapshotChain(RecordsInOrder(w))

\* C14, what the code keeps: with session transactions the records form a
\* snapshot chain in every reachable state
C14_SnapshotChainInSession ==
    useTransactions => \A w \in WalletIds : IsSnapshotChain(RecordsInOrder(w))

\* C14 witness: all invocations have returned, two of them have written the
\* wallet, and its records are not a snapshot chain
C14_Witness ==
    /\ AllReturned /\ Cardinality(wrote) = 2
    /\ \E w \in WalletIds : ~IsSnapshotChain(RecordsInOrder(w))

\* ------------------------------------------------------------------ C16
\* nothing p did inside its session transaction is visible in the store
NothingVisibleOf(p) ==
    /\ p \notin wrote
    /\ NoRecordOf(p)
    /\ StoredStatus(p) = "done" =>
           idempotency[req[p].idempotencyKey].result.id # p

\* the balance, the record and the done mark of p are all visible
AllVisibleOf(p) ==
    /\ p \in wrote
    /\ Cardinality(RecordsOf({p})) = 1
    /\ req[p].idempotencyKey # NoKey =>
           /\ StoredStatus(p) = "done"
           /\ idempotency[req[p].idempotencyKey].result.id = p

\* the step makes the new balance, the new record and the done mark of p
\* visible together
BecomeVisibleTogether(p) ==
    /\ wallets'[req[p].walletId].balance = loaded[p].balance + req[p].amount
    /\ Len(transactions') = Len(transactions) + 1
    /\ transactions'[Len(transactions')].id = p
    /\ transactions'[Len(transactions')].balance
           = wallets'[req[p].walletId].balance
    /\ req[p].idempotencyKey # NoKey =>
           idempotency'[req[p].idempotencyKey]
               = [status |-> "done", result |-> transactions'[Len(transactions')]]

\* C16: with session transactions the load, balance update, record creation
\* and mark-done of an invocation are all-or-nothing: as long as it has not
\* committed, and for good when it failed at one of these steps, neither the
\* wallet balance nor the Transaction records show anything of it; when it
\* commits, the new balance, the new record and the done idempotency record
\* become visible in one step.
C16_SessionAllOrNothing ==
    /\ [](useTransactions =>
            \A p \in Procs :
                IF outcome[p] = "ok" THEN AllVisibleOf(p)
                ELSE NothingVisibleOf(p))
    /\ [][useTransactions =>
            \A p \in Procs :
                /\ StepOf(p) /\ outcome'[p] # "ok" =>
                       wallets' = wallets /\ transactions' = transactions
                /\ StepOf(p) /\ outcome'[p] = "ok" => BecomeVisibleTogether(p)]_vars

\* C16 witness: with session transactions, a keyed invocation failed on a
\* store call after its balance update and left the balance and the records
\* as they were, and a later invocation has committed
C16_Witness ==
    /\ useTransactions
    /\ \E p, q \in Procs :
        /\ outcome[p] = "DATABASE_ERROR" /\ overtaken[p] = {}
        /\ StoredStatus(p) = "processing" /\ loaded[p] # NotLoaded
        /\ outcome[q] = "ok" /\ p \in returnedBefore[q]
        /\ req[q].walletId = req[p].walletId
        /\ wallets[req[q].walletId].balance = loaded[p].balance + req[q].amount

\* ------------------------------------------------------------------ C13
\* Scenario A: a wallet is created with balance 0, then 100.50 is credited
\* and then 30.25 is debited, one request after the other, the two requests
\* not sharing an idempotency key, and nothing else is requested
ScenarioA ==
    /\ setup[1].pc = "done" /\ ParseFloat(setup[1].raw) = 0
    /\ \A w \in WalletIds \ {1} : setup[w].pc = "none"
    /\ pc[1] = "done" /\ pc[2] = "done"
    /\ \A p \in Procs \ {1, 2} : pc[p] = "idle"
    /\ req[1].walletId = 1 /\ ParseFloat(req[1].raw) = Cents(10050) * EpsPerUnit
    /\ req[2].walletId = 1 /\ ParseFloat(req[2].raw) = -Cents(3025) * EpsPerUnit
    /\ req[1].idempotencyKey = NoKey \/ req[2].idempotencyKey = NoKey

\* C13: after Scenario A the wallet balance is 70.25 and there are exactly two
\* Transaction records, whose balance snapshots are 100.50 and 70.25 in that
\* order.
C13_ScenarioA ==
    ScenarioA =>
        /\ outcome[1] = "ok" /\ outcome[2] = "ok"
        /\ wallets[1].balance = Cents(7025)
        /\ Len(transactions) = 2
        /\ transactions[1].balance = Cents(10050)
        /\ transactions[2].balance = Cents(7025)

C13_Witness ==
    /\ ScenarioA
    /\ req[1].raw.kind = "string"
    /\ wallets[1].balance = Cents(7025)
    /\ result[2].amount = -Cents(3025) /\ result[2].type = "DEBIT"

\* ------------------------------------------------------------------ C15
\* C15: every Transaction record created through POST /transact has a
\* non-zero amount, and is a CREDIT exactly when the amount is positive and a
\* DEBIT exactly when it is negative; a request whose amount is zero, as a
\* number or as a numeric string, ends in a validation error.
C15_ZeroAmountRejected ==
    /\ \A i \in RecordsOf(Procs) :
        /\ transactions[i].amount # 0
        /\ transactions[i].type = "CREDIT" <=> transactions[i].amount > 0
        /\ transactions[i].type = "DEBIT" <=> transactions[i].amount < 0
    /\ \A p \in Procs :
        pc[p] = "done" /\ ParseFloat(req[p].raw) = 0 =>
            outcome[p] = "VALIDATION_ERROR"

\* the amount "0" passed validation and was recorded as a DEBIT of zero
C15_Witness ==
    \E p \in Procs :
        /\ outcome[p] = "ok" /\ req[p].raw = RawString(0)
        /\ Cardinality(RecordsOf({p})) = 1
        /\ \A i \in RecordsOf({p}) :
            transactions[i].amount = 0 /\ transactions[i].type = "DEBIT"

\* ------------------------------------------------------------------ C19
\* q is a request sent after p had been answered, and both carry the same
\* key in the X-Idempotency-Key header and none in the body
SameHeaderKeyOnly(p, q) ==
    /\ p # q /\ pc[q] = "done" /\ p \in returnedBefore[q]
    /\ req[p].walletId = req[q].walletId /\ req[p].raw = req[q].raw
    /\ req[p].bodyKey = NoKey /\ req[q].bodyKey = NoKey
    /\ req[p].headerKey # NoKey /\ req[p].headerKey = req[q].headerKey

\* C19: the key of a request is the body field idempotencyKey if present and
\* otherwise the X-Idempotency-Key header; of two requests carrying the same
\* key in the header only, the second is answered with the Transaction of the
\* first and the transaction is applied once.
C19_HeaderKeyDeduplicates ==
    /\ \A p \in Procs :
        pc[p] = "done" =>
            req[p].idempotencyKey = IF req[p].bodyKey # NoKey
                                    THEN req[p].bodyKey ELSE req[p].headerKey
    /\ \A p, q \in Procs :
        SameHeaderKeyOnly(p, q) /\ outcome[p] = "ok" =>
            /\ outcome[q] = "cached" /\ result[q] = result[p]
            /\ Cardinality(RecordsOf({p, q})) = 1

\* both requests with the key in the header were applied
C19_Witness ==
    \E p, q \in Procs :
        /\ SameHeaderKeyOnly(p, q)
        /\ outcome[p] = "ok" /\ outcome[q] = "ok"
        /\ Cardinality(RecordsOf({p, q})) = 2
        /\ req[p].amount > 0
        /\ wallets[req[p].walletId].balance >= 2 * req[p].amount

\* ------------------------------------------------------------------ C20
\* the initial transactions of wallet w
InitialRecordsOf(w) ==
    {i \in 1..Len(transactions) : transactions[i].id = MaxProcs + w}

\* C20: setupWallet creates the wallet with the balance initialBalance, and
\* creates one initial CREDIT whose amount and balance snapshot are
\* initialBalance exactly when initialBalance > 0; the transactionId of the
\* response is non-null exactly then, and the balance of the response is the
\* requested one.
C20_SetupWallet ==
    \A w \in WalletIds :
        setup[w].pc = "done" =>
            LET initialBalance == ParseFloat(setup[w].raw)
            IN  /\ setup[w].balance * EpsPerUnit = initialBalance
                /\ Cardinality(InitialRecordsOf(w)) =
                       IF initialBalance > 0 THEN 1 ELSE 0
                /\ \A i \in InitialRecordsOf(w) :
                    /\ transactions[i].type = "CREDIT"
                    /\ transactions[i].amount * EpsPerUnit = initialBalance
                    /\ transactions[i].balance * EpsPerUnit = initialBalance
                /\ setup[w].transactionId # 0 <=> initialBalance > 0

\* the balance 1e-7 was accepted: a wallet of balance 0 with an initial CREDIT
\* of 0 and a transactionId in the response
C20_Witness ==
    \E w \in WalletIds :
        /\ setup[w].pc = "done" /\ setup[w].raw = RawTiny
        /\ setup[w].balance = 0 /\ setup[w].transactionId # 0
        /\ \E i \in InitialRecordsOf(w) : transactions[i].amount = 0

\* C20 for the balances with at most four fractional digits
C20_SetupWalletOfFourDigits ==
    \A w \in WalletIds :
        setup[w].pc = "done" /\ setup[w].raw.eps = 0 =>
            LET initialBalance == setup[w].raw.value
            IN  /\ setup[w].balance = initialBalance
                /\ Cardinality(InitialRecordsOf(w)) =
                       IF initialBalance > 0 THEN 1 ELSE 0
                /\ \A i \in InitialRecordsOf(w) :
                    /\ transactions[i].type = "CREDIT"
                    /\ transactions[i].amount = initialBalance
                    /\ transactions[i].balance = initialBalance
                /\ setup[w].transactionId # 0 <=> initialBalance > 0

\* ------------------------------------------------------------------ C17
\* the client has received the last page
ListingDone == listing.calls > 0 /\ ~listing.hasMore

\* the ids of the records the client received, page after page
ListedIds == [i \in 1..Len(listing.pages) |-> listing.pages[i].id]

\* every record of the collection was received exactly once
ListedExactlyOnce ==
    /\ Len(listing.pages) = Len(transactions)
    /\ \A i \in 1..Len(transactions) : \E k \in 1..Len(ListedIds) : ListedIds[k] = i

\* the records were received in the requested sort order
ListedInOrder ==
    \A i, j \in 1..Len(listing.pages) :
        i < j =>
            IF listing.sortOrder = "desc"
            THEN SortKey(listing.pages[i], listing.sortBy)
                     >= SortKey(listing.pages[j], listing.sortBy)
            ELSE SortKey(listing.pages[i], listing.sortBy)
                     <= SortKey(listing.pages[j], listing.sortBy)

\* C17: for any limit and any sort (by createdAt or amount, ascending or
\* descending), with no inserts meanwhile, the pages obtained by following
\* nextCursor until hasMore = false hold every transaction of the wallet
\* exactly once, in the requested sort order.
C17_CursorCompleteness == ListingDone => ListedExactlyOnce /\ ListedInOrder

\* sorted by amount, the pages repeat one record and omit another
C17_Witness ==
    /\ ListingDone /\ listing.sortBy = "amount"
    /\ \E i, j \in 1..Len(ListedIds) : i # j /\ ListedIds[i] = ListedIds[j]
    /\ \E i \in 1..Len(transactions) :
        \A k \in 1..Len(ListedIds) : ListedIds[k] # i

\* the createdAt instants of the collection are pairwise different
DistinctTimes ==
    \A i, j \in 1..Len(transactions) :
        i # j => transactions[i].createdAt # transactions[j].createdAt

\* C17 for the sort by createdAt of records created at different instants
C17_CompletenessByDistinctTimes ==
    ListingDone /\ listing.sortBy = "createdAt" /\ DistinctTimes =>
        ListedExactlyOnce /\ ListedInOrder

\* ------------------------------------------------------------------ C18
\* Scenario D: five records, limit = 2, descending by date
ScenarioD ==
    /\ Len(transactions) = 5
    /\ listing.limit = 2
    /\ listing.sortBy = "createdAt" /\ listing.sortOrder = "desc"

\* the records of the first page are the newest ones
NewestFirst ==
    \A k \in 1..Len(listing.pages) : \A i \in 1..Len(transactions) :
        \/ \E l \in 1..Len(listing.pages) : listing.pages[l].id = i
        \/ transactions[i].createdAt <= listing.pages[k].createdAt

\* C18: in Scenario D the first page holds the 2 newest records with
\* hasMore = true, and after following the cursor twice more the client has
\* received all 5 records, none twice, the last page having hasMore = false.
C18_ScenarioD ==
    ScenarioD =>
        /\ listing.calls = 1 =>
              Len(listing.pages) = 2 /\ listing.hasMore /\ NewestFirst
        /\ listing.calls = 3 => ~listing.hasMore /\ ListedExactlyOnce
        /\ listing.calls <= 3

\* two of the five records were created in the same millisecond, and the
\* listing ended without one of them
C18_Witness ==
    /\ ScenarioD /\ ListingDone
    /\ Len(listing.pages) = 4
    /\ \E i \in 1..Len(transactions) :
        \A k \in 1..Len(ListedIds) : ListedIds[k] # i

\* C18 for records created at different instants
C18_ScenarioDDistinctTimes ==
    ScenarioD /\ DistinctTimes =>
        /\ listing.calls = 1 =>
              Len(listing.pages) = 2 /\ listing.hasMore /\ NewestFirst
        /\ listing.calls = 3 => ~listing.hasMore /\ ListedExactlyOnce
        /\ listing.calls <= 3

\* ------------------------------------------------------------------ C24
\* the step leaves every existing Transaction record in place and unchanged
KeepsRecords ==
    /\ Len(transactions') >= Len(transactions)
    /\ \A i \in 1..Len(transactions) : transactions'[i] = transactions[i]

\* C24: Transaction records are append-only: no step of processTransaction or
\* setupWallet, failing store calls included, modifies or deletes an existing
\* record, and every invocation that succeeded and is not an idempotent replay
\* has created exactly one record.
C24_AppendOnly ==
    /\ [][KeepsRecords]_vars
    /\ [](\A p \in Procs :
            outcome[p] = "ok" => Cardinality(RecordsOf({p})) = 1)

\* a store call failed after the invocation had created its record, next to
\* the record of another invocation that succeeded
C24_Witness ==
    \E p, q \in Procs :
        /\ outcome[p] = "DATABASE_ERROR" /\ Cardinality(RecordsOf({p})) = 1
        /\ outcome[q] = "ok" /\ Cardinality(RecordsOf({q})) = 1
        /\ Len(transactions) >= 3

\* ------------------------------------------------------------------ C26
\* checkIdempotency of p has returned null: p went on to the wallet
Proceeded(p) ==
    /\ req[p].idempotencyKey # NoKey
    /\ \/ pc[p] \in {"load", "cas", "create", "mark", "commit"}
       \/ pc[p] = "done" /\ outcome[p] \notin {"cached", "IDEMPOTENCY_KEY_CONFLICT"}

\* the invocations with key k whose checkIdempotency returned null
ClaimersOf(k) == {p \in Procs : req[p].idempotencyKey = k /\ Proceeded(p)}

\* the invocations with key k that have not yet tried the insert
BeforeInsert(k) == {p \in Procs : req[p].idempotencyKey = k /\ pc[p] = "claim"}

\* in this step checkIdempotency of p returns null
ReturnsNull(p) == pc[p] = "claim" /\ pc'[p] = "load"

\* C26: a key has a record exactly when one checkIdempotency call has inserted
\* it, and never more than one call per key returns null: of the calls for a
\* key, concurrent ones included, exactly one proceeds once all have tried the
\* insert, and the others end with ConflictError or with the cached result.  A
\* call returns null only by inserting the record of a key that had none.
C26_ClaimIsAtomic ==
    /\ [](\A k \in Keys :
            /\ Cardinality(ClaimersOf(k)) <= 1
            /\ k \in DOMAIN idempotency <=> Cardinality(ClaimersOf(k)) = 1
            /\ CarryingKey(k) # {} /\ BeforeInsert(k) = {} =>
                  /\ Cardinality(ClaimersOf(k)) = 1
                  /\ \A p \in CarryingKey(k) \ ClaimersOf(k) :
                        pc[p] = "done" =>
                            outcome[p] \in {"cached", "IDEMPOTENCY_KEY_CONFLICT"})
    /\ [][\A p \in Procs :
            ReturnsNull(p) =>
                /\ req[p].idempotencyKey \notin DOMAIN idempotency
                /\ req[p].idempotencyKey \in DOMAIN idempotency']_vars

\* three calls for one key at the same time: one went on, two found the key
\* taken and have not returned yet
C26_Witness ==
    \E k \in Keys :
        /\ Cardinality(CarryingKey(k)) = 3
        /\ Cardinality(ClaimersOf(k)) = 1
        /\ Cardinality({p \in CarryingKey(k) : pc[p] = "find"}) = 2
        /\ \A p \in ClaimersOf(k) : pc[p] = "load"

\* ------------------------------------------------------------------ C28
\* C28: an invocation a store call of which failed with a timeout or a lost
\* connection, the insert of checkIdempotency included, ends with that storage
\* failure: it is never answered with ConflictError('Request already
\* in-flight') nor with a cached result.
C28_InsertFailurePropagates ==
    \A p \in failed : pc[p] = "done" => outcome[p] = "DATABASE_ERROR"

\* the insert of the only invocation carrying the key failed, the key has no
\* record, and the invocation was answered 'Request already in-flight'
C28_Witness ==
    \E p \in failed :
        /\ outcome[p] = "IDEMPOTENCY_KEY_CONFLICT"
        /\ CarryingKey(req[p].idempotencyKey) = {p}
        /\ req[p].idempotencyKey \notin DOMAIN idempotency

\* ------------------------------------------------------------------ C27
\* p claimed its key and then failed: wallet not found, insufficient balance,
\* a lost compare-and-swap, a refused write, or a failing store call
FailedAfterClaim(p) == Proceeded(p) /\ pc[p] = "done" /\ outcome[p] # "ok"

\* q arrived with the key of p after p had returned, and has returned
CameLaterWithKey(p, q) ==
    /\ q # p /\ req[q].idempotencyKey = req[p].idempotencyKey
    /\ p \in returnedBefore[q] /\ pc[q] = "done"

\* the step removes no idempotency record and moves none to failed
KeepsKeys ==
    \A k \in DOMAIN idempotency :
        k \in DOMAIN idempotency' /\ idempotency'[k].status # "failed"

FailsAfterSwap(p) ==
    ~useTransactions /\ p \in wrote /\ p \notin failed /\ p \in failed'

\* C29: without a session, when transactionDAO.create or the mark-done fails
\* after the compare-and-swap of the invocation succeeded, nothing is rolled
\* back: the failing step leaves the wallet, the records and the idempotency
\* records as they are and ends the invocation with the storage error; the
\* invocation then has no Transaction record (the create failed), or one
\* record and no done idempotency record (the mark-done failed).
C29_NoRollback ==
    /\ [][\A p \in Procs :
            FailsAfterSwap(p) =>
                /\ wallets' = wallets /\ transactions' = transactions
                /\ idempotency' = idempotency
                /\ pc'[p] = "done" /\ outcome'[p] = "DATABASE_ERROR"]_vars
    /\ [](\A p \in failed \cap wrote :
            ~useTransactions =>
                /\ outcome[p] = "DATABASE_ERROR"
                /\ StoredStatus(p) # "done"
                /\ \/ NoRecordOf(p)
                   \/ /\ Cardinality(RecordsOf({p})) = 1
                      /\ StoredStatus(p) = "processing")

\* the create of p failed: the wallet shows the balance p wrote, and there is
\* no record of it
C29_Witness ==
    \E p \in failed \cap wrote :
        /\ ~useTransactions /\ NoRecordOf(p) /\ AllReturned
        /\ outcome[p] = "DATABASE_ERROR"
        /\ wallets[req[p].walletId].balance = loaded[p].balance + req[p].amount
        /\ wallets[req[p].walletId].balance # SumAmounts(transactions, req[p].walletId)

\* ------------------------------------------------------------------ C25
\* q is a retry of p: the same request, sent after p had ended with a storage
\* error, and answered
RetriedAfterStorageFailure(p, q) ==
    /\ p # q /\ req[q] = req[p]
    /\ p \in failed /\ outcome[p] = "DATABASE_ERROR"
    /\ p \in returnedBefore[q] /\ pc[q] = "done"

\* C25: when a request that ended with a storage error is retried, with or
\* without an idempotency key, the amount is written to the wallet balance at
\* most once by the failed attempt and its retry together.
C25_RetryIsSafe ==
    \A p, q \in Procs :
        RetriedAfterStorageFailure(p, q) => Cardinality(wrote \cap {p, q}) <= 1

\* without a key and without a session: the create of p failed after its
\* swap, the retry succeeded, and the wallet holds the amount twice with one
\* record
C25_Witness ==
    \E p, q \in Procs :
        /\ RetriedAfterStorageFailure(p, q)
        /\ req[p].idempotencyKey = NoKey /\ ~useTransactions
        /\ wrote = {p, q} /\ outcome[q] = "ok"
        /\ \A r \in Procs \ {p, q} : pc[r] = "idle"
        /\ NoRecordOf(p) /\ Cardinality(RecordsOf({q})) = 1
        /\ wallets[req[p].walletId].balance =
               setup[req[p].walletId].initialBalance + 2 * req[p].amount

\* ------------------------------------------------------------------ C30
\* the place of a step in the text of processTransaction
PcRank(at) ==
    CASE at = "idle" -> 0 [] at = "claim" -> 1 [] at = "find" -> 2
      [] at = "load" -> 3 [] at = "cas" -> 4 [] at = "create" -> 5
      [] at = "mark" -> 6 [] at = "commit" -> 7 [] at = "done" -> 8

\* the session of p is open: it is started at the entry when the store
\* supports transactions, and ended in the finally block
SessionOpen(p) == useTransactions /\ pc[p] \notin {"idle", "done"}

\* C30: every invocation terminates.  Its steps only move forward through the
\* text of processTransaction, so it performs each store call (the idempotency
\* claim, the wallet load, the compare-and-swap, the record creation, the
\* mark-done) at most once and retries nothing, and once ended it stays
\* ended; given that every store call returns, the invocations that have
\* started all end, by returning a Transaction or by throwing, with their
\* sessions ended (a started invocation never counts as not started again, so
\* from some point on every invocation either was never made or has ended).
C30_Terminates ==
    /\ [][\A p \in Procs :
            /\ StepOf(p) => PcRank(pc'[p]) > PcRank(pc[p])
            /\ pc[p] = "done" =>
                  outcome'[p] = outcome[p] /\ result'[p] = result[p]]_vars
    /\ <>[](\A p \in Procs :
               \/ pc[p] = "idle"
               \/ pc[p] = "done" /\ outcome[p] # "pending" /\ ~SessionOpen(p))

\* three invocations against one wallet have all ended: one returned its
\* Transaction, one lost the compare-and-swap, one was turned away by the key
C30_Witness ==
    /\ AllReturned
    /\ \E p, q, r \in Procs :
        /\ outcome[p] = "ok" /\ result[p] # NoResult
        /\ outcome[q] \in {"RESOURCE_CONFLICT", "WriteConflict"}
        /\ outcome[r] = "IDEMPOTENCY_KEY_CONFLICT"

\* ------------------------------------------------------------------ C23
\* the step leaves the document and the records of wallet w as they are
LeavesWallet(w) ==
    /\ wallets'[w] = wallets[w]
    /\ SelectSeq(transactions', LAMBDA t : t.walletId = w)
           = SelectSeq(transactions, LAMBDA t : t.walletId = w)

\* no other invocation names the wallet of p
AloneOnWallet(p) ==
    \A q \in Procs \ {p} : pc[q] # "idle" => req[q].walletId # req[p].walletId

\* no other invocation carries the key of p
KeyNotShared(p) ==
    \/ req[p].idempotencyKey = NoKey
    \/ \A q \in Procs \ {p} : req[q].idempotencyKey # req[p].idempotencyKey

\* C23: a step of an invocation on one wallet leaves the balance and the
\* records of every other wallet unchanged; and an invocation that shares
\* neither its wallet nor its key with another one ends as it would alone,
\* whatever runs against the other wallet at the same time: with
\* InsufficientBalanceError when the amount exceeds the balance the wallet was
\* set up with, and with its Transaction otherwise.
C23_WalletIndependence ==
    /\ [][\A p \in Procs :
            StepOf(p) =>
                \A w \in DOMAIN wallets \ {req'[p].walletId} : LeavesWallet(w)]_vars
    /\ [](\A p \in Procs :
            pc[p] = "done" /\ AloneOnWallet(p) /\ KeyNotShared(p) =>
                outcome[p] = IF TwoWalletsBalance + req[p].amount < 0
                             THEN "INSUFFICIENT_BALANCE" ELSE "ok")

\* an invocation on each wallet, each started before the other had returned,
\* both applied; a third one turned away for lack of balance
C23_Witness ==
    \E p, q, r \in Procs :
        /\ req[p].walletId = 1 /\ req[q].walletId = SecondWalletId
        /\ p \notin returnedBefore[q] /\ q \notin returnedBefore[p]
        /\ outcome[p] = "ok" /\ outcome[q] = "ok" /\ useTransactions
        /\ wallets[1].balance = TwoWalletsBalance + req[p].amount
        /\ wallets[SecondWalletId].balance = TwoWalletsBalance + req[q].amount
        /\ req[r].walletId = 1 /\ outcome[r] = "INSUFFICIENT_BALANCE"

\* ------------------------------------------------------------------ C21
\* the number of transactions of the wallet that is exported
StoredOf(walletId) ==
    Cardinality({i \in 1..Len(transactions) :
                    transactions[i].walletId = walletId})

\* C21: exportTransactionsCSV(walletId, limit) of a wallet with N transactions
\* gives a CSV of the header and exactly min(N, exportLimit) data rows, where
\* exportLimit = clamp(limit, 1, 100000), and the rows are the newest
\* transactions of the wallet, newest first.
C21_ExportRows ==
    exported.calls = 1 /\ exported.error = "none" =>
        LET n == StoredOf(exported.walletId)
            exportLimit == NormalizeLimit(exported.limit, 1, ExportMaxLimit)
            rows == exported.csv.rows
        IN  /\ exported.csv.header = "Date,Amount,Balance,Description,Type"
            /\ Len(rows) = IF n < exportLimit THEN n ELSE exportLimit
            /\ \A i \in 1..Len(rows) : rows[i][1] = n - i + 1

\* a wallet with 101 transactions was exported with the default limit, and the
\* CSV holds the 100 newest of them
C21_Witness ==
    /\ exported.calls = 1 /\ exported.error = "none"
    /\ exported.limit = DefaultExportLimit
    /\ StoredOf(exported.walletId) = SkipLimitMaxLimit + 1
    /\ Len(exported.csv.rows) = SkipLimitMaxLimit
    /\ exported.csv.rows[1][1] = SkipLimitMaxLimit + 1
    /\ exported.csv.rows[SkipLimitMaxLimit][1] = 2

\* ------------------------------------------------------------------ C22
\* the requests of client c that were passed on in the window begun at start
PassedIn(c, start) ==
    Cardinality({i \in 1..Len(limiter.passedAt[c]) :
                    /\ start <= limiter.passedAt[c][i]
                    /\ limiter.passedAt[c][i] <= start + WINDOW_MS})

\* client c has a record whose window is not over, with MAX_REQUESTS of its
\* requests passed on in that window
WindowIsFull(c) ==
    /\ c \in DOMAIN limiter.requestCounts
    /\ limiter.now - limiter.requestCounts[c].windowStart <= WINDOW_MS
    /\ PassedIn(c, limiter.requestCounts[c].windowStart) = MAX_REQUESTS

\* the step is rateLimiter handling a request of client c
HandlesRequestOf(c) ==
    limiter'.served = limiter.served + 1 /\ limiter'.last.client = c

\* C22: for each client, in each window at most MAX_REQUESTS requests are passed
\* on and the stored count never exceeds MAX_REQUESTS; a request of a client
\* whose window is full is rejected with RateLimitError and leaves the stored
\* counts as they are, and no other request is rejected.
C22_RateLimit ==
    /\ [](\A c \in Clients :
            /\ c \in DOMAIN limiter.requestCounts =>
                  /\ limiter.requestCounts[c].count <= MAX_REQUESTS
                  /\ limiter.requestCounts[c].count =
                        PassedIn(c, limiter.requestCounts[c].windowStart)
            /\ \A start \in limiter.windows[c] :
                  PassedIn(c, start) <= MAX_REQUESTS)
    /\ [][\A c \in Clients :
            HandlesRequestOf(c) =>
                IF WindowIsFull(c)
                THEN /\ limiter'.last.answer = "RATE_LIMIT_EXCEEDED"
                     /\ limiter'.requestCounts = limiter.requestCounts
                     /\ limiter'.passedAt = limiter.passedAt
                ELSE /\ limiter'.last.answer = "next"
                     /\ limiter'.passedAt[c] =
                           Append(limiter.passedAt[c], limiter.now)]_vars

\* a client in its second window has used it up and was rejected, while
\* requests of the other client were passed on
C22_Witness ==
    \E c, d \in Clients :
        /\ c # d
        /\ limiter.last = [client |-> c, answer |-> "RATE_LIMIT_EXCEEDED"]
        /\ c \in DOMAIN limiter.requestCounts
        /\ limiter.requestCounts[c].count = MAX_REQUESTS
        /\ Cardinality(limiter.windows[c]) >= 2
        /\ Len(limiter.passedAt[d]) >= 1

\* ------------------------------------------------------------------ C31
\* p looks for a wallet that the store does not hold
LoadsMissingWallet(p) ==
    /\ pc[p] = "load" /\ StepOf(p)
    /\ req[p].walletId \notin DOMAIN wallets

\* C31: an invocation for a walletId with no wallet fails with NotFoundError
\* (WALLET_NOT_FOUND) at its wallet load, with no session left open, and
\* changes no wallet balance and no Transaction record, then or later.
C31_MissingWallet ==
    /\ [][\A p \in Procs : LoadsMissingWallet(p) =>
                              EndsWithout(p, "WALLET_NOT_FOUND")]_vars
    /\ [](\A p \in Procs :
            /\ outcome[p] = "WALLET_NOT_FOUND" =>
                  /\ req[p].walletId \notin DOMAIN wallets
                  /\ loaded[p] = NotLoaded
                  /\ p \notin wrote /\ NoRecordOf(p)
                  /\ ~SessionOpen(p)
            /\ pc[p] = "done" /\ req[p].walletId \notin DOMAIN wallets =>
                  outcome[p] \in {"WALLET_NOT_FOUND", "cached",
                                  "IDEMPOTENCY_KEY_CONFLICT"})

\* an invocation for the missing wallet has failed, in a session, while the
\* wallet that exists was credited by another one
C31_Witness ==
    \E p, q \in Procs :
        /\ useTransactions
        /\ outcome[p] = "WALLET_NOT_FOUND"
        /\ req[p].walletId = MissingWalletId
        /\ req[p].idempotencyKey # NoKey
        /\ outcome[q] = "ok" /\ wrote = {q}
        /\ Len(transactions) = 2

\* ------------------------------------------------------------------ C39
\* p is a debit of exactly the balance it loaded
DebitsWholeBalance(p) ==
    req[p].amount < 0 /\ loaded[p].balance + req[p].amount = 0

\* no other invocation ran while p did
RanAlone(p) ==
    \A q \in Procs \ {p} :
        pc[q] = "idle" \/ q \in returnedBefore[p] \/ p \in returnedBefore[q]

\* C39: a debit whose absolute amount equals the current balance passes the
\* balance check, and is rejected by it exactly when the new balance is
\* strictly negative; its write leaves the balance at exactly 0, its
\* Transaction records the balance 0, and run on its own it succeeds.
C39_BalanceBoundary ==
    /\ [][\A p \in Procs :
            /\ pc[p] = "load" /\ StepOf(p) /\ req[p].walletId \in DOMAIN wallets =>
                  /\ pc'[p] = "cas" <=>
                        wallets[req[p].walletId].balance + req[p].amount >= 0
                  /\ outcome'[p] = "INSUFFICIENT_BALANCE" <=>
                        wallets[req[p].walletId].balance + req[p].amount < 0
            /\ p \notin wrote /\ p \in wrote' /\ DebitsWholeBalance(p) =>
                  wallets'[req[p].walletId].balance = 0]_vars
    /\ [](\A p \in Procs :
            DebitsWholeBalance(p) =>
                /\ outcome[p] # "INSUFFICIENT_BALANCE"
                /\ outcome[p] = "ok" => result[p].balance = 0
                /\ pc[p] = "done" /\ RanAlone(p) =>
                      /\ outcome[p] = "ok"
                      /\ \E i \in 1..Len(transactions) :
                            transactions[i].id = p /\ transactions[i].balance = 0)

\* a debit of 50 from a balance of 50 has succeeded and the balance is 0; a
\* further debit of 50 was rejected
C39_Witness ==
    \E p, q \in Procs :
        /\ outcome[p] = "ok" /\ req[p].amount = -50 /\ loaded[p].balance = 50
        /\ wallets[req[p].walletId].balance = 0
        /\ p \in returnedBefore[q] /\ req[q].amount = -50
        /\ loaded[q].balance = 0 /\ loaded[q] # NotLoaded
        /\ outcome[q] = "INSUFFICIENT_BALANCE"

\* ------------------------------------------------------------------ C36
RECURSIVE AmountsOfWriters(_, _)
\* the sum of the amounts of the invocations 1..n that are in ps
AmountsOfWriters(n, ps) ==
    IF n = 0 THEN 0
    ELSE (IF n \in ps THEN req[n].amount ELSE 0) + AmountsOfWriters(n - 1, ps)

StoredCopiesOf(doc) ==
    {i \in 1..Len(transactions) : transactions[i] = doc}

\* the step leaves every done idempotency record as it is
KeepsDoneRecords ==
    \A k \in DOMAIN idempotency :
        idempotency[k].status = "done" =>
            k \in DOMAIN idempotency' /\ idempotency'[k] = idempotency[k]

\* C37: whenever the idempotency record of a key is done, its cached result is
\* a Transaction record that the store holds (exactly once), created by an
\* invocation that carried the key, returned it and whose balance write was
\* applied; and a done record never changes again.
C37_DoneImpliesApplied ==
    /\ [](\A k \in DOMAIN idempotency :
            idempotency[k].status = "done" =>
                /\ Cardinality(StoredCopiesOf(idempotency[k].result)) = 1
                /\ \E p \in Procs :
                      /\ idempotency[k].result.id = p
                      /\ req[p].idempotencyKey = k
                      /\ idempotency[k].result.amount = req[p].amount
                      /\ idempotency[k].result.walletId = req[p].walletId
                      /\ p \in wrote
                      /\ outcome[p] = "ok" /\ result[p] = idempotency[k].result)
    /\ [][KeepsDoneRecords]_vars

\* a key is done, a later call with it got the cached Transaction, and a store
\* call of a third invocation failed
C37_Witness ==
    \E p, q, r \in Procs :
        /\ req[p].idempotencyKey # NoKey
        /\ StoredStatus(p) = "done"
        /\ idempotency[req[p].idempotencyKey].result.id = p
        /\ req[q].idempotencyKey = req[p].idempotencyKey
        /\ outcome[q] = "cached" /\ result[q] = result[p]
        /\ r \in failed /\ outcome[r] = "DATABASE_ERROR"

\* ------------------------------------------------------------------ C38
\* q carries the key of p, which had returned its Transaction before q was
\* called, and names another wallet or another amount
ReusesKeyOtherwise(q, p) ==
    /\ p # q
    /\ req[p].idempotencyKey # NoKey
    /\ req[q].idempotencyKey = req[p].idempotencyKey
    /\ outcome[p] = "ok" /\ p \in returnedBefore[q]
    /\ req[q].walletId # req[p].walletId \/ req[q].amount # req[p].amount

\* C38: idempotency keys are not scoped to the request.  An invocation that
\* reuses a key whose record is done, with another walletId or another amount,
\* returns the Transaction of the first request and has no effect: it loads
\* no wallet, writes no balance and creates no record, and its steps leave the
\* wallets, the records and the idempotency records as they are.
C38_KeysAreGlobal ==
    /\ [](\A p, q \in Procs :
            ReusesKeyOtherwise(q, p) /\ pc[q] = "done" =>
                /\ outcome[q] = "cached"
                /\ result[q] = result[p]
                /\ result[q].walletId = req[p].walletId
                /\ result[q].amount = req[p].amount
                /\ loaded[q] = NotLoaded
                /\ q \notin wrote /\ NoRecordOf(q))
    /\ [][\A p, q \in Procs :
            ReusesKeyOtherwise(q, p) /\ StepOf(q) =>
                /\ wallets' = wallets
                /\ transactions' = transactions
                /\ idempotency' = idempotency]_vars

\* a credit of 50 to the first wallet was made with a key; a later call with
\* the key, asking to credit 50 to the second wallet, was given the Transaction
\* of the first, and the second wallet has its balance
C38_Witness ==
    \E p, q \in Procs :
        /\ ReusesKeyOtherwise(q, p)
        /\ req[p].walletId = 1 /\ req[p].amount = 50
        /\ req[q].walletId = SecondWalletId /\ req[q].amount = 50
        /\ outcome[q] = "cached" /\ result[q].walletId = 1
        /\ wallets[1].balance = TwoWalletsBalance + 50
        /\ wallets[SecondWalletId].balance = TwoWalletsBalance

\* ------------------------------------------------------------------ C33
\* C33: normalizeLimit(limit, min, max) always returns, and returns an integer
\* in [min, max]: min when the limit does not parse to a number or parses to
\* less than min, max when it parses to more than max, and the parsed integer
\* otherwise.
C33_NormalizeLimit ==
    normalizing.calls = 1 =>
        LET raw == normalizing.raw
            min == normalizing.min
            max == normalizing.max
        IN  /\ normalizing.value \in min..max
            /\ normalizing.value =
                  IF raw.kind \in {"text", "absent", "NaN"} THEN min
                  ELSE IF raw.value < min THEN min
                  ELSE IF raw.value > max THEN max
                  ELSE raw.value

\* "100001" was clamped to the largest export
C33_Witness ==
    /\ normalizing.calls = 1
    /\ normalizing.raw = [kind |-> "numeral", value |-> 100001]
    /\ normalizing.max = ExportMaxLimit
    /\ normalizing.value = ExportMaxLimit

\* ------------------------------------------------------------------ C34
\* the attempt ended with a 5xx response or a network error
MayBeRetried(o) ==
    \/ o.kind = "response" /\ o.status >= 500
    \/ o.kind = "error" /\ o.name # "AbortError"

\* the attempt ended with a 2xx or a 4xx response
IsFinalResponse(o) ==
    o.kind = "response" /\ o.status >= 200 /\ o.status < 500

\* C34: fetchWithRetry makes at most MAX_RETRIES + 1 attempts and then ends.
\* Every attempt but the last ended with a network error or a 5xx response;
\* after a 2xx or 4xx response it returns that response at once, after an
\* abort it throws at once; when the retries are used up it returns the last
\* 5xx response or throws the last network error.
C34_FetchWithRetry ==
    /\ [](LET n == Len(fetching.attempts) IN
            /\ n <= MAX_RETRIES + 1
            /\ Len(fetching.slept) <= MAX_RETRIES
            /\ \A i \in 1..n : i < n => MayBeRetried(fetching.attempts[i])
            /\ n > 0 /\ ~MayBeRetried(fetching.attempts[n]) =>
                  /\ fetching.at = "done"
                  /\ fetching.answer.of = fetching.attempts[n]
                  /\ fetching.answer.how =
                        IF IsFinalResponse(fetching.attempts[n])
                        THEN "return" ELSE "throw"
            /\ fetching.at = "done" =>
                  /\ n > 0 /\ fetching.answer.of = fetching.attempts[n]
                  /\ MayBeRetried(fetching.attempts[n]) =>
                        /\ n = MAX_RETRIES + 1
                        /\ fetching.answer.how =
                              IF fetching.attempts[n].kind = "response"
                              THEN "return" ELSE "throw")
    /\ <>(fetching.at = "done")

\* after a 500, a network error and a 503 the fourth attempt met a 404, which
\* was returned
C34_Witness ==
    /\ fetching.at = "done"
    /\ fetching.attempts = <<Response(500), Failure("TypeError"),
                             Response(503), Response(404)>>
    /\ fetching.answer = [how |-> "return", of |-> Response(404)]
    /\ fetching.slept = <<1000, 2000, 4000>>

\* ------------------------------------------------------------------ C35
\* C35: a request of a client whose record is older than WINDOW_MS (or was
\* removed by the cleanup) is passed on and starts a new window with count 1,
\* also when the client had been limited; a request arriving at exactly
\* windowStart + WINDOW_MS, or earlier, belongs to the old window: the window
\* start stays, and the request is counted or, with the window full, rejected.
C35_WindowReset ==
    [][\A c \in Clients :
         HandlesRequestOf(c) =>
            IF c \notin DOMAIN limiter.requestCounts
            THEN /\ limiter'.last.answer = "next"
                 /\ limiter'.requestCounts[c] =
                       [count |-> 1, windowStart |-> limiter.now]
            ELSE LET record == limiter.requestCounts[c] IN
                 IF limiter.now - record.windowStart > WINDOW_MS
                 THEN /\ limiter'.last.answer = "next"
                      /\ limiter'.requestCounts[c] =
                            [count |-> 1, windowStart |-> limiter.now]
                 ELSE /\ limiter'.requestCounts[c].windowStart
                            = record.windowStart
                      /\ limiter'.requestCounts[c].count =
                            IF record.count = MAX_REQUESTS THEN MAX_REQUESTS
                            ELSE record.count + 1
                      /\ limiter'.last.answer =
                            IF record.count = MAX_REQUESTS
                            THEN "RATE_LIMIT_EXCEEDED" ELSE "next"]_vars

\* a client was rejected at the very end of its window, windowStart +
\* WINDOW_MS, and its next request, one tick later, started a new window
C35_Witness ==
    \E c \in Clients : \E start \in limiter.windows[c] :
        /\ start + WINDOW_MS \in limiter.rejectedAt[c]
        /\ limiter.now = start + WINDOW_MS + 1
        /\ limiter.last = [client |-> c, answer |-> "next"]
        /\ c \in DOMAIN limiter.requestCounts
        /\ limiter.requestCounts[c] = [count |-> 1, windowStart |-> limiter.now]

\* ------------------------------------------------------------------ C32
\* the rows the call in progress returns: what it appends to the pages the
\* client holds
ReturnedPage ==
    SubSeq(listing'.pages, Len(listing.pages) + 1, Len(listing'.pages))

\* the records that match the query of the call in progress
MatchingThePage ==
    {i \in 1..Len(transactions) :
        /\ transactions[i].walletId = ListedWallet
        /\ \/ listing.cursor = NoCursor
           \/ IF listing.sortOrder = "desc"
              THEN transactions[i].createdAt < listing.cursor
              ELSE transactions[i].createdAt > listing.cursor}

\* the returned rows are different records, each of which matches the query
ReturnsMatchingRows ==
    /\ \A k \in 1..Len(ReturnedPage) : ReturnedPage[k].id \in MatchingThePage
    /\ \A k, l \in 1..Len(ReturnedPage) :
          k # l => ReturnedPage[k].id # ReturnedPage[l].id

\* C32: a page of the cursor pagination holds at most limit rows (the limit
\* after normalizeLimit), its hasMore is true exactly when a record matching
\* the query of the page exists beyond the returned rows, and with hasMore
\* true its nextCursor is the createdAt of the last returned row, not of the
\* extra row that was fetched.
C32_PageMetadata ==
    [][listing'.calls = listing.calls + 1 =>
          LET queryLimit == NormalizeLimit(listing.limit, DefaultMinLimit,
                                           DefaultMaxLimit)
          IN  /\ Len(ReturnedPage) <= queryLimit
              /\ ReturnsMatchingRows
              /\ listing'.hasMore <=>
                     Cardinality(MatchingThePage) > Len(ReturnedPage)
              /\ listing'.hasMore =>
                     /\ Len(ReturnedPage) = queryLimit
                     /\ listing'.cursor =
                            ReturnedPage[Len(ReturnedPage)].createdAt]_vars

\* a first page of two rows with hasMore = true came with the createdAt of
\* its second row as nextCursor, while every record left was created at
\* another instant
C32_Witness ==
    /\ listing.calls = 1 /\ listing.hasMore
    /\ listing.limit = 2 /\ Len(listing.pages) = 2
    /\ listing.cursor = listing.pages[2].createdAt
    /\ Len(transactions) > 2
    /\ \A i \in 1..Len(transactions) :
          \/ \E k \in 1..2 : listing.pages[k].id = i
          \/ transactions[i].createdAt # listing.cursor

====
